---- MODULE Spec2Model ----
(***************************************************************************)
(* Model of the LaTeX-to-HTML conversion engine                            *)
(* (src/analysis-3-project/simple-latex-parser.js).                        *)
(*                                                                         *)
(* A JavaScript string is modelled as a sequence of lexemes.  A lexeme is  *)
(* a unit the parser's regular expressions match as a whole (a command     *)
(* such as \begin{proof}, a bracketed title, one plain character, one      *)
(* piece of generated markup); `.length` counts lexemes.  Positions are    *)
(* 0-based, as in the source.  Identifiers (stable ids, labels, titles)    *)
(* are sequences of single characters, so that two ids are equal exactly   *)
(* when the strings the code builds are equal.                             *)
(***************************************************************************)
EXTENDS Integers, Sequences, FiniteSets, TLC

\* ------------------------------------------------------------------ bounds
MaxProofLen == 6
MaxTexLen == 4
MaxAuxLen == 3
MaxChildAuxLen == 1
MaxRerunLen == 4
MaxCalls == 3
MaxClock == 2
MaxRefLen == 4
MaxTheoremLen == 3
MaxFigLen == 3
MaxDirs == 2
MaxFormatLen == 6
MaxEvents == 3
MaxLabelledLen == 5

\* ----------------------------------------------------------------- lexemes
BEGIN_PROOF == "\\begin{proof}"
END_PROOF == "\\end{proof}"
BEGIN_ENUMERATE == "\\begin{enumerate}"
END_ENUMERATE == "\\end{enumerate}"
BEGIN_ITEMIZE == "\\begin{itemize}"
END_ITEMIZE == "\\end{itemize}"
ITEM == "\\item"
BEGIN_FIGURE == "\\begin{figure}"
END_FIGURE == "\\end{figure}"
CENTERING == "\\centering"
\* a bracketed argument [...] with no "]" inside: an optional title or type
BracketLexemes == {"[num 1]", "[(a)]", "[Num]"}
LabelLexemes == {"\\label{a}", "\\label{b}", "\\label{constructor}"}
CaptionLexemes == {"\\caption{c}"}
IncludeLexemes == {"\\includegraphics{plot.pdf}", "\\includegraphics{plot}"}
SetCounterLexemes == {"\\setcounter{enumi}{2}"}
Whitespace == {" ", "  ", "    ", "\n"}

\* the characters between the brackets of a bracketed argument
BracketText(lex) ==
  IF lex = "[num 1]" THEN <<"n", "u", "m", " ", "1">>
  ELSE IF lex = "[(a)]" THEN <<"(", "a", ")">>
  ELSE IF lex = "[Num]" THEN <<"N", "u", "m">>
  ELSE <<>>

\* a label name that is also the name of a property every object inherits
CONSTRUCTOR == <<"c", "o", "n", "s", "t", "r", "u", "c", "t", "o", "r">>

\* the characters between the braces of a \label lexeme
LabelText(lex) ==
  IF lex = "\\label{a}" THEN <<"a">>
  ELSE IF lex = "\\label{b}" THEN <<"b">>
  ELSE IF lex = "\\label{constructor}" THEN CONSTRUCTOR
  ELSE <<>>

\* ------------------------------------------------------- JavaScript strings
Min(a, b) == IF a < b THEN a ELSE b
Max(a, b) == IF a < b THEN b ELSE a
Clamp(i, n) == IF i < 0 THEN 0 ELSE IF i > n THEN n ELSE i

\* String.prototype.substring(a, b): indices clamped to [0, length], swapped
\* when a > b
substring(s, a, b) ==
  LET a1 == Clamp(a, Len(s))
      b1 == Clamp(b, Len(s))
  IN SubSeq(s, Min(a1, b1) + 1, Max(a1, b1))

substringFrom(s, a) == substring(s, a, Len(s))

\* String.prototype.search for a one-lexeme pattern: 0-based index or -1
search(s, lex) ==
  IF \E i \in 1..Len(s) : s[i] = lex
  THEN (CHOOSE i \in 1..Len(s) : s[i] = lex /\ \A j \in 1..(i - 1) : s[j] # lex) - 1
  ELSE -1

\* first 0-based index >= from at which a lexeme of set S stands, or -1
searchSetFrom(s, from, S) ==
  IF \E i \in (from + 1)..Len(s) : s[i] \in S
  THEN (CHOOSE i \in (from + 1)..Len(s) :
          s[i] \in S /\ \A j \in (from + 1)..(i - 1) : s[j] \notin S) - 1
  ELSE -1

\* String.prototype.match for a one-lexeme pattern out of X: index or -1
firstIn(s, X) == searchSetFrom(s, 0, X)

RECURSIVE trimLeft(_)
trimLeft(s) ==
  IF s # <<>> /\ Head(s) \in Whitespace THEN trimLeft(Tail(s)) ELSE s

RECURSIVE trimRight(_)
trimRight(s) ==
  IF s # <<>> /\ s[Len(s)] \in Whitespace
  THEN trimRight(SubSeq(s, 1, Len(s) - 1)) ELSE s

trim(s) == trimRight(trimLeft(s))

DigitChar == <<"0", "1", "2", "3", "4", "5", "6", "7", "8", "9">>

\* decimal rendering of a non-negative number inside a template literal
RECURSIVE NumberToString(_)
NumberToString(n) ==
  IF n < 10 THEN <<DigitChar[n + 1]>>
  ELSE NumberToString(n \div 10) \o <<DigitChar[(n % 10) + 1]>>

\* ------------------------------------------------------------- characters
UpperChars ==
  <<"A", "B", "C", "D", "E", "F", "G", "H", "I", "J", "K", "L", "M",
    "N", "O", "P", "Q", "R", "S", "T", "U", "V", "W", "X", "Y", "Z">>
LowerChars ==
  <<"a", "b", "c", "d", "e", "f", "g", "h", "i", "j", "k", "l", "m",
    "n", "o", "p", "q", "r", "s", "t", "u", "v", "w", "x", "y", "z">>
AlnumLower == {"a", "b", "c", "d", "e", "f", "g", "h", "i", "j", "k", "l", "m",
               "n", "o", "p", "q", "r", "s", "t", "u", "v", "w", "x", "y", "z",
               "0", "1", "2", "3", "4", "5", "6", "7", "8", "9"}

toLowerCaseChar(c) ==
  IF \E i \in 1..Len(UpperChars) : UpperChars[i] = c
  THEN LowerChars[CHOOSE i \in 1..Len(UpperChars) : UpperChars[i] = c]
  ELSE c

toUpperCaseChar(c) ==
  IF \E i \in 1..Len(LowerChars) : LowerChars[i] = c
  THEN UpperChars[CHOOSE i \in 1..Len(LowerChars) : LowerChars[i] = c]
  ELSE c

toLowerCase(s) == [i \in 1..Len(s) |-> toLowerCaseChar(s[i])]

\* s.replace(/[^a-z0-9]+/g, '-'): every maximal run of other characters
\* becomes one hyphen
RECURSIVE replaceNonAlnum(_)
replaceNonAlnum(s) ==
  IF s = <<>> THEN <<>>
  ELSE IF Head(s) \in AlnumLower THEN <<Head(s)>> \o replaceNonAlnum(Tail(s))
  ELSE IF Len(s) > 1 /\ s[2] \notin AlnumLower THEN replaceNonAlnum(Tail(s))
  ELSE <<"-">> \o replaceNonAlnum(Tail(s))

\* optionalTitle.toLowerCase().replace(/[^a-z0-9]+/g, '-')
sanitize(title) == replaceNonAlnum(toLowerCase(title))

\* s.replace(/X/g, '') for a set X of one-lexeme patterns
removeAll(s, X) == SelectSeq(s, LAMBDA l : l \notin X)

\* --------------------------------------------------- convertListsInContent
\* content.replace(/\\item\s*/g, '</li><li>')
RECURSIVE replaceItems(_)
replaceItems(s) ==
  IF s = <<>> THEN <<>>
  ELSE IF Head(s) = ITEM THEN <<"</li>", "<li>">> \o replaceItems(trimLeft(Tail(s)))
  ELSE <<Head(s)>> \o replaceItems(Tail(s))

\* the three steps shared by every list body: items, leading </li>, closing </li>
listItems(s) ==
  LET a == replaceItems(s)
      b == IF a # <<>> /\ Head(a) = "</li>" THEN Tail(a) ELSE a
  IN IF b # <<>> /\ b[Len(b)] = "</li>" THEN b ELSE b \o <<"</li>">>

\* String.prototype.includes
includes(s, sub) ==
  \E i \in 0..(Len(s) - Len(sub)) : SubSeq(s, i + 1, i + Len(sub)) = sub

\* lines 117-127 and 762-772: the numbering glyphs of an enumerate option
typeAttrOf(optType) ==
  IF optType = <<>> THEN <<>>
  ELSE IF includes(optType, <<"(", "a", ")">>)
  THEN <<" style=\"list-style-type: lower-alpha;\"">>
  ELSE IF includes(optType, <<"(", "i", ")">>)
  THEN <<" style=\"list-style-type: lower-roman;\"">>
  ELSE IF includes(optType, <<"(", "A", ")">>)
  THEN <<" style=\"list-style-type: upper-alpha;\"">>
  ELSE IF includes(optType, <<"(", "I", ")">>)
  THEN <<" style=\"list-style-type: upper-roman;\"">>
  ELSE <<>>

\* parseInt of the number of a \setcounter{enumi}{n} lexeme
setCounterValue(lex) == IF lex = "\\setcounter{enumi}{2}" THEN 2 ELSE 0

\* the replacement callback of the enumerate pattern (lines 95-130)
enumerateReplacement(match, optType, enumContent) ==
  LET listContent == listItems(removeAll(trim(enumContent), SetCounterLexemes))
      c == firstIn(match, SetCounterLexemes)
      startAttr == IF c # -1
                   THEN <<" start=\"">> \o NumberToString(setCounterValue(match[c + 1]) + 1)
                          \o <<"\"">>
                   ELSE <<>>
  IN <<"<ol">> \o typeAttrOf(optType) \o startAttr \o <<">">> \o listContent
       \o <<"</ol>">>

RECURSIVE replaceEnumerates(_)
replaceEnumerates(s) ==
  LET b == search(s, BEGIN_ENUMERATE)
      hasOpt == b + 1 < Len(s) /\ s[b + 2] \in BracketLexemes
      bodyStart == b + 1 + (IF hasOpt THEN 1 ELSE 0)
      e == searchSetFrom(s, bodyStart, {END_ENUMERATE})
  IN IF b = -1 \/ e = -1 THEN s
     ELSE substring(s, 0, b)
            \o enumerateReplacement(substring(s, b, e + 1),
                                    IF hasOpt THEN BracketText(s[b + 2]) ELSE <<>>,
                                    substring(s, bodyStart, e))
            \o replaceEnumerates(substringFrom(s, e + 1))

RECURSIVE replaceItemizes(_)
replaceItemizes(s) ==
  LET b == search(s, BEGIN_ITEMIZE)
      e == searchSetFrom(s, b + 1, {END_ITEMIZE})
  IN IF b = -1 \/ e = -1 THEN s
     ELSE substring(s, 0, b)
            \o <<"<ul", ">">> \o listItems(trim(substring(s, b + 1, e))) \o <<"</ul>">>
            \o replaceItemizes(substringFrom(s, e + 1))

convertListsInContent(content) == replaceItemizes(replaceEnumerates(content))

\* ------------------------------------------------ processFiguresInContent
FileNameText(lex) ==
  IF lex = "\\includegraphics{plot.pdf}"
  THEN <<"p", "l", "o", "t", ".", "p", "d", "f">>
  ELSE IF lex = "\\includegraphics{plot}" THEN <<"p", "l", "o", "t">>
  ELSE <<>>

CaptionText(lex) == IF lex = "\\caption{c}" THEN <<"c">> ELSE <<>>

KnownExtensions == {<<".", "p", "n", "g">>, <<".", "j", "p", "g">>,
                    <<".", "j", "p", "e", "g">>, <<".", "g", "i", "f">>,
                    <<".", "s", "v", "g">>, <<".", "p", "d", "f">>}

endsWith(s, suffix) ==
  Len(s) >= Len(suffix) /\ SubSeq(s, Len(s) - Len(suffix) + 1, Len(s)) = suffix

\* the extension rules of every \includegraphics callback
normalizeFilename(filename) ==
  LET withExt == IF \E x \in KnownExtensions : endsWith(toLowerCase(filename), x)
                 THEN filename ELSE filename \o <<".", "p", "n", "g">>
  IN IF endsWith(toLowerCase(withExt), <<".", "p", "d", "f">>)
     THEN SubSeq(withExt, 1, Len(withExt) - 4) \o <<".", "p", "n", "g">>
     ELSE withExt

\* the \includegraphics callback inside a figure body (lines 290-336)
RECURSIVE replaceIncludesInFigure(_, _)
replaceIncludesInFigure(s, caption) ==
  IF s = <<>> THEN <<>>
  ELSE IF Head(s) \in IncludeLexemes
  THEN <<"<img", " src=\"">> \o normalizeFilename(FileNameText(Head(s)))
         \o <<"\" alt=\"">> \o (IF caption # <<>> THEN caption ELSE <<"Figure">>)
         \o <<"\" class=\"latex-image\">">> \o replaceIncludesInFigure(Tail(s), caption)
  ELSE <<Head(s)>> \o replaceIncludesInFigure(Tail(s), caption)

\* the replacement callback of the figure pattern (lines 255-350)
figureInContentReplacement(figContent) ==
  LET c == firstIn(figContent, CaptionLexemes)
      caption == IF c = -1 THEN <<>> ELSE CaptionText(figContent[c + 1])
      l == firstIn(figContent, LabelLexemes)
      label == IF l = -1 THEN <<>> ELSE LabelText(figContent[l + 1])
      stripped == removeAll(figContent, CaptionLexemes \cup LabelLexemes \cup {CENTERING})
      processedContent == replaceIncludesInFigure(stripped, caption)
  IN <<"\n", "<figure", " class=\"latex-figure\"">>
       \o (IF label # <<>> THEN <<" id=\"">> \o label \o <<"\"">> ELSE <<>>)
       \o <<">", "\n", "  ", "<div", " class=\"figure-content\">">>
       \o trim(processedContent) \o <<"</div>", "\n">>
       \o (IF caption # <<>>
           THEN <<"  ", "<figcaption>">> \o caption \o <<"</figcaption>", "\n">>
           ELSE <<>>)
       \o <<"</figure>", "\n">>

RECURSIVE processFiguresInContent(_)
processFiguresInContent(content) ==
  LET b == search(content, BEGIN_FIGURE)
      e == searchSetFrom(content, b + 1, {END_FIGURE})
  IN IF b = -1 \/ e = -1 THEN content
     ELSE substring(content, 0, b)
            \o figureInContentReplacement(trimLeft(substring(content, b + 1, e)))
            \o processFiguresInContent(substringFrom(content, e + 1))

\* ----------------------------------------------------- processNestedProofs
DefaultProofTitle == <<"Proof">>

\* `subproof-${Date.now()}-${subproofCounter++}`
subproofIdOf(now, subproofCounter) ==
  <<"s", "u", "b", "p", "r", "o", "o", "f", "-">> \o NumberToString(now)
    \o <<"-">> \o NumberToString(subproofCounter)

\* the replacement callback of processNestedProofs (lines 236-251)
subproofReplacement(title, proofContent, subproofId) ==
  <<"<div", " class=\"subproof collapsed\" data-subproof-id=\"">> \o subproofId
    \o <<"\">", "\n", "<div", " class=\"subproof-header\">", "\n",
         "<button class=\"subproof-toggle\" onclick=\"toggleSubproof('">>
    \o subproofId \o <<"')\" aria-expanded=\"false\">", "\n", "<strong>">>
    \o (IF title # <<>> THEN title ELSE DefaultProofTitle)
    \o <<"</strong>", "\n", "</button>", "\n", "</div>", "\n",
         "<div", " class=\"subproof-content\" id=\"">> \o subproofId \o <<"\">", "\n">>
    \o convertListsInContent(trim(proofContent))
    \o <<"\n", "<span class=\"proof-end\">", "</span>", "\n", "</div>", "\n", "</div>">>

\* content.replace(/\\begin\{proof\}(?:\[([^\]]+)\])?([\s\S]*?)\\end\{proof\}/g, ...)
\* with the time Date.now() returns and the running subproofCounter
RECURSIVE replaceNestedProofs(_, _, _)
replaceNestedProofs(s, now, subproofCounter) ==
  LET b == search(s, BEGIN_PROOF)
      hasTitle == b + 1 < Len(s) /\ s[b + 2] \in BracketLexemes
      bodyStart == b + 1 + (IF hasTitle THEN 1 ELSE 0)
      e == searchSetFrom(s, bodyStart, {END_PROOF})
  IN IF b = -1 \/ e = -1 THEN s
     ELSE substring(s, 0, b)
            \o subproofReplacement(IF hasTitle THEN BracketText(s[b + 2]) ELSE <<>>,
                                   substring(s, bodyStart, e),
                                   subproofIdOf(now, subproofCounter))
            \o replaceNestedProofs(substringFrom(s, e + 1), now, subproofCounter + 1)

processNestedProofs(content, now) == replaceNestedProofs(content, now, 0)

\* ------------------------------------------------------------------ state
VARIABLES
  pc,            \* position in the running function
  text,          \* the text extractProofs scans (texContent of the conversion)
  now,           \* the value Date.now() returns
  pos,           \* extractProofs: outer cursor
  proofs,        \* extractProofs: the result list
  usedIds,       \* extractProofs: ids given so far in this call
  proofCounter,  \* extractProofs: ordinal of the next proof
  startPos,      \* extractProofs: index of the \begin{proof} under scan
  startLength,   \* extractProofs: startMatch[0].length
  optionalTitle, \* extractProofs: startMatch[1], <<>> when undefined
  depth,         \* extractProofs: nesting depth
  searchPos,     \* extractProofs: inner cursor
  history,       \* results of the calls that have returned, oldest first
  auxData,       \* convertLaTeXToHTML: the label table parseAuxFile returned
  theorems,      \* convertLaTeXToHTML: result of extractTheorems
  figures,       \* convertLaTeXToHTML: result of extractFigures
  allElements,   \* convertLaTeXToHTML: the merged, sorted element list
  html,          \* convertLaTeXToHTML: the working text of the splice loop
  offset,        \* convertLaTeXToHTML: cumulative length delta
  elementIndex,  \* convertLaTeXToHTML: 1-based position of the for-of loop
  errorLog,      \* convertLaTeXToHTML: what console.error has reported
  files,         \* the aux files on disk: file name -> content
  auxPath,       \* parseAuxFile: its argument, "" for null or undefined
  outputPath,    \* convertLaTeXToHTML: its argument, a sequence of path segments
  siteRoot,      \* the directory the site is generated in, a prefix of outputPath
  output,        \* the documents fs.writeFileSync has written, oldest first
  buildTimer,    \* watch.js: the timeout scheduleBuild set and its options
  reloadsSent,   \* watch.js: the reload signals notifyReload has sent after builds
  isBuilding,    \* watch.js: the in-progress flag of build
  lastMainFileHash,  \* watch.js: hash of main.tex at the last compiling build
  lastPreambleHash,  \* watch.js: hash of preamble.tex at the last compiling build
  mainHash,      \* the hash of main.tex as it is on disk
  preambleHash,  \* the hash of preamble.tex as it is on disk
  auxOnDisk,     \* whether build/main.aux exists
  onDisk,        \* the .tex files under src/ that exist
  readable,      \* the .tex files under src/ that can be read
  currentMainHash,      \* build: the hash of main.tex it read at its start
  currentPreambleHash,  \* build: the hash of preamble.tex it read at its start
  buildPc,       \* build: where the running build stands
  buildOptions,  \* build: its argument
  buildAuxPath,  \* build: its local auxPath, "" for null
  texFiles,      \* build: the files of the conversion loop
  fileIndex,     \* build: 1-based position of the conversion loop
  converted,     \* the files the running or last build has written
  failed,        \* the files whose failure the running or last build reported
  events,        \* how many change events the watchers have delivered
  owedFull,      \* a change of main.tex or preamble.tex awaits its full build
  owed           \* the changed files under src/ that await their conversion

proofVars == <<pos, proofs, usedIds, proofCounter, startPos, startLength,
               optionalTitle, depth, searchPos>>
convVars == <<auxData, theorems, figures, allElements, html, offset, elementIndex,
              errorLog>>
auxVars == <<files, auxPath>>
outVars == <<outputPath, siteRoot, output>>
watchVars == <<buildTimer, reloadsSent, isBuilding, lastMainFileHash, lastPreambleHash, mainHash,
               preambleHash, auxOnDisk, onDisk, readable, currentMainHash,
               currentPreambleHash, buildPc, buildOptions, buildAuxPath,
               texFiles, fileIndex, converted, failed, events, owedFull, owed>>
vars == <<pc, text, now, proofVars, history, convVars, auxVars, outVars, watchVars>>

\* build(options = {}): no target file, no chapter, skipCompile undefined
NoOptions == [targetFile |-> "", chapter |-> "", skipCompile |-> FALSE]

\* no build is under way and no timer is set
BuildIdle ==
  /\ buildTimer = [pending |-> FALSE, options |-> NoOptions]
  /\ reloadsSent = 0
  /\ isBuilding = FALSE
  /\ lastMainFileHash = 0
  /\ lastPreambleHash = 0
  /\ mainHash = 0
  /\ preambleHash = 0
  /\ auxOnDisk = FALSE
  /\ currentMainHash = 0
  /\ currentPreambleHash = 0
  /\ buildPc = "idle"
  /\ buildOptions = NoOptions
  /\ buildAuxPath = ""
  /\ texFiles = <<>>
  /\ fileIndex = 0
  /\ converted = {}
  /\ failed = {}
  /\ events = 0
  /\ owedFull = FALSE
  /\ owed = {}

\* watch.js is not running
WatchIdle == BuildIdle /\ onDisk = {} /\ readable = {}

\* the output path watch.js builds at line 341 for src/ch/a.tex
DefaultOutputPath == <<"html_preview", "ch", "a.html">>

\* CONFIG.outputDir, line 21
OUTPUT_DIR == <<"html_preview">>

\* nothing has been written; the output goes where watch.js puts it
OutputIdle ==
  /\ outputPath = DefaultOutputPath
  /\ siteRoot = OUTPUT_DIR
  /\ output = <<>>

\* ---------------------------------------------------------- extractProofs
\* the nine environment names of the label pattern at line 183
LabelGuardEnds == {"\\end{theorem}", "\\end{lemma}", "\\end{proposition}",
                   "\\end{corollary}", "\\end{definition}", "\\end{example}",
                   "\\end{remark}", "\\end{exercise}", "\\end{problem}"}

\* text.substring(pos).match(/\\begin\{proof\}(?:\[([^\]]+)\])?/):
\* index -1 stands for null
startMatchOf(s) ==
  LET i == search(s, BEGIN_PROOF)
      hasTitle == i # -1 /\ i + 1 < Len(s) /\ s[i + 2] \in BracketLexemes
  IN [index |-> i,
      length |-> IF hasTitle THEN 2 ELSE 1,
      title |-> IF hasTitle THEN BracketText(s[i + 2]) ELSE <<>>]

\* textBefore.match(/\\label\{([^}]+)\}(?![\s\S]*\\end\{(?:theorem|...)\})/):
\* the captured label, <<>> for null
labelMatchOf(textBefore) ==
  LET ok(i) == /\ textBefore[i] \in LabelLexemes
               /\ \A j \in (i + 1)..Len(textBefore) : textBefore[j] \notin LabelGuardEnds
  IN IF \E i \in 1..Len(textBefore) : ok(i)
     THEN LabelText(textBefore[CHOOSE i \in 1..Len(textBefore) :
                                 ok(i) /\ \A j \in 1..(i - 1) : ~ok(j)])
     ELSE <<>>

\* while (usedIds.has(stableId)) { stableId = `${baseId}-${counter}`; counter++ }
RECURSIVE disambiguate(_, _, _, _)
disambiguate(stableId, baseId, counter, used) ==
  IF stableId \in used
  THEN disambiguate(baseId \o <<"-">> \o NumberToString(counter), baseId, counter + 1, used)
  ELSE stableId

PROOF_FOR == <<"p", "r", "o", "o", "f", "-", "f", "o", "r", "-">>
PROOF_DASH == <<"p", "r", "o", "o", "f", "-">>
PROOF_NUM == <<"p", "r", "o", "o", "f", "-", "n", "u", "m", "-">>

\* the numeric fallback at line 203
numericId(counter, used) == PROOF_NUM \o NumberToString(counter)

\* the title is preferred to the label
stableIdTitleFirst(label, title, used, counter) ==
  IF title # <<>>
  THEN disambiguate(PROOF_DASH \o sanitize(title), PROOF_DASH \o sanitize(title), 1, used)
  ELSE IF label # <<>>
  THEN disambiguate(PROOF_FOR \o label, PROOF_FOR \o label, 1, used)
  ELSE numericId(counter, used)

\* lines 185-204
stableIdOf(label, title, used, counter) ==
  IF label # <<>>
  THEN disambiguate(PROOF_FOR \o label, PROOF_FOR \o label, 1, used)
  ELSE IF title # <<>>
  THEN disambiguate(PROOF_DASH \o sanitize(title), PROOF_DASH \o sanitize(title), 1, used)
  ELSE numericId(counter, used)

\* lines 178-180
cleanProofContent(content, time) ==
  processNestedProofs(processFiguresInContent(convertListsInContent(trim(content))), time)

\* a nested \begin{proof} is ignored: the proof ends at the first \end{proof}
depthIgnoringNesting(d) == d

\* depth++ at a nested \begin{proof} (line 169)
depthAfterBegin(d) == d + 1

\* the inner cursor after a nested \begin{proof} (line 170)
afterNestedBegin(sp, nextBegin) == sp + nextBegin + Len(<<BEGIN_PROOF>>)

\* the inner cursor is left on the inner \end{proof}
stayAtInnerEnd(sp, nextEnd) == sp + nextEnd

\* the inner cursor after an inner \end{proof} (line 221)
afterInnerEnd(sp, nextEnd) == sp + nextEnd + Len(<<END_PROOF>>)

\* the unterminated \begin{proof} consumes the remainder of the text
skipRemainder(sp, len) == sp + len + Len(text)

\* the outer cursor after an unterminated \begin{proof} (line 227)
afterUnterminated(sp, len) == sp + len

nextBeginAt(sp) == search(substringFrom(text, sp), BEGIN_PROOF)
nextEndAt(sp) == search(substringFrom(text, sp), END_PROOF)

\* lines 151-158: the outer loop finds the next \begin{proof}
ProofStart ==
  /\ pc = "outer"
  /\ pos < Len(text)
  /\ LET startMatch == startMatchOf(substringFrom(text, pos))
     IN /\ startMatch.index # -1
        /\ startPos' = pos + startMatch.index
        /\ optionalTitle' = startMatch.title
        /\ startLength' = startMatch.length
        /\ depth' = 1
        /\ searchPos' = pos + startMatch.index + startMatch.length
  /\ pc' = "inner"
  /\ UNCHANGED <<auxVars, outVars, watchVars, text, now, pos, proofs, usedIds, proofCounter, history, convVars>>

\* lines 151-153 and 231: the outer loop ends and the function returns
ProofsReturn ==
  /\ pc = "outer"
  /\ \/ pos >= Len(text)
     \/ startMatchOf(substringFrom(text, pos)).index = -1
  /\ pc' = "returned"
  /\ UNCHANGED <<auxVars, outVars, watchVars, text, now, proofVars, history, convVars>>

\* line 160 false, or lines 164-166: the inner loop is left with depth > 0
InnerLeave ==
  /\ pc = "inner"
  /\ \/ ~(depth > 0 /\ searchPos < Len(text))
     \/ nextEndAt(searchPos) = -1
  /\ pc' = "after"
  /\ UNCHANGED <<auxVars, outVars, watchVars, text, now, proofVars, history, convVars>>

\* lines 168-170: a nested \begin{proof} comes first
InnerBegin ==
  /\ pc = "inner"
  /\ depth > 0 /\ searchPos < Len(text)
  /\ LET nextBegin == nextBeginAt(searchPos)
         nextEnd == nextEndAt(searchPos)
     IN /\ nextEnd # -1
        /\ nextBegin # -1 /\ nextBegin < nextEnd
        /\ depth' = depthAfterBegin(depth)
        /\ searchPos' = afterNestedBegin(searchPos, nextBegin)
  /\ UNCHANGED <<auxVars, outVars, watchVars, pc, text, now, pos, proofs, usedIds, proofCounter, startPos,
                 startLength, optionalTitle, history, convVars>>

\* lines 171-172, 220-222: an \end{proof} that leaves the depth positive
InnerEnd ==
  /\ pc = "inner"
  /\ depth > 0 /\ searchPos < Len(text)
  /\ LET nextBegin == nextBeginAt(searchPos)
         nextEnd == nextEndAt(searchPos)
     IN /\ nextEnd # -1
        /\ ~(nextBegin # -1 /\ nextBegin < nextEnd)
        /\ depth - 1 # 0
        /\ depth' = depth - 1
        /\ searchPos' = afterInnerEnd(searchPos, nextEnd)
  /\ UNCHANGED <<auxVars, outVars, watchVars, pc, text, now, pos, proofs, usedIds, proofCounter, startPos,
                 startLength, optionalTitle, history, convVars>>

\* lines 171-219: the \end{proof} that brings the depth to 0 closes the proof
CloseProof ==
  /\ pc = "inner"
  /\ depth > 0 /\ searchPos < Len(text)
  /\ LET nextBegin == nextBeginAt(searchPos)
         nextEnd == nextEndAt(searchPos)
         endPos == searchPos + nextEnd
         fullMatch == substring(text, startPos, endPos + Len(<<END_PROOF>>))
         content == substring(text, startPos + startLength, endPos)
         textBefore == substring(text, 0, startPos)
         stableId == stableIdOf(labelMatchOf(textBefore), optionalTitle, usedIds,
                                proofCounter)
     IN /\ nextEnd # -1
        /\ ~(nextBegin # -1 /\ nextBegin < nextEnd)
        /\ depth - 1 = 0
        /\ depth' = depth - 1
        /\ usedIds' = usedIds \cup {stableId}
        /\ proofs' = Append(proofs,
             [type |-> "proof",
              title |-> IF optionalTitle # <<>> THEN optionalTitle ELSE DefaultProofTitle,
              content |-> cleanProofContent(content, now),
              fullMatch |-> fullMatch,
              startIndex |-> startPos,
              proofNumber |-> proofCounter,
              stableId |-> stableId])
        /\ proofCounter' = proofCounter + 1
        /\ pos' = endPos + Len(<<END_PROOF>>)
  /\ pc' = "after"
  /\ UNCHANGED <<auxVars, outVars, watchVars, text, now, startPos, startLength, optionalTitle, searchPos, history, convVars>>

\* lines 226-229: resume after an unterminated \begin{proof}
AfterInner ==
  /\ pc = "after"
  /\ pos' = IF depth > 0 THEN afterUnterminated(startPos, startLength) ELSE pos
  /\ pc' = "outer"
  /\ UNCHANGED <<auxVars, outVars, watchVars, text, now, proofs, usedIds, proofCounter, startPos, startLength,
                 optionalTitle, depth, searchPos, history, convVars>>

ExtractProofsStep ==
  \/ ProofStart
  \/ ProofsReturn
  \/ InnerLeave
  \/ InnerBegin
  \/ InnerEnd
  \/ CloseProof
  \/ AfterInner

\* ------------------------------------------- specification: extractProofs
ProofVocabulary == {BEGIN_PROOF, END_PROOF, "[num 1]", "\\label{a}", "x"}

\* no conversion is under way
ConversionIdle ==
  /\ auxData = <<>>
  /\ theorems = <<>>
  /\ figures = <<>>
  /\ allElements = <<>>
  /\ html = <<>>
  /\ offset = 0
  /\ elementIndex = 0
  /\ errorLog = <<>>
  /\ files = <<>>
  /\ auxPath = ""
  /\ OutputIdle
  /\ WatchIdle

\* no conversion is under way
ParserIdle ==
  /\ pc = "idle"
  /\ text = <<>>
  /\ now = 0
  /\ pos = 0
  /\ proofs = <<>>
  /\ usedIds = {}
  /\ proofCounter = 0
  /\ startPos = 0
  /\ startLength = 0
  /\ optionalTitle = <<>>
  /\ depth = 0
  /\ searchPos = 0
  /\ history = <<>>
  /\ auxData = <<>>
  /\ theorems = <<>>
  /\ figures = <<>>
  /\ allElements = <<>>
  /\ html = <<>>
  /\ offset = 0
  /\ elementIndex = 0
  /\ errorLog = <<>>
  /\ files = <<>>
  /\ auxPath = ""
  /\ OutputIdle

parserVars == <<pc, text, now, proofVars, history, convVars, auxVars, outVars>>

TextsOver(V, n) == UNION {[1..k -> V] : k \in 0..n}

InitProofs ==
  /\ text \in TextsOver(ProofVocabulary, MaxProofLen)
  /\ pc = "outer"
  /\ now = 0
  /\ pos = 0
  /\ proofs = <<>>
  /\ usedIds = {}
  /\ proofCounter = 0
  /\ startPos = 0
  /\ startLength = 0
  /\ optionalTitle = <<>>
  /\ depth = 0
  /\ searchPos = 0
  /\ history = <<>>
  /\ ConversionIdle

NextProofs == ExtractProofsStep

SpecProofs == InitProofs /\ [][NextProofs]_vars

\* ------------------------------------------------- claims on extractProofs
\* 1 + (number of \begin{proof}) - (number of \end{proof}) among the lexemes
\* of t at 0-based positions b+1 .. j
RunningCount(t, b, j) ==
  1 + Cardinality({i \in (b + 1)..j : t[i + 1] = BEGIN_PROOF})
    - Cardinality({i \in (b + 1)..j : t[i + 1] = END_PROOF})

\* the \begin{proof} at 0-based position b of t is closed by some \end{proof}
Terminated(t, b) == \E j \in (b + 1)..(Len(t) - 1) : RunningCount(t, b, j) = 0

BeginPositions(t) == {b \in 0..(Len(t) - 1) : t[b + 1] = BEGIN_PROOF}

\* last 0-based position of the span of element p
LastIndex(p) == p.startIndex + Len(p.fullMatch) - 1

Covers(p, i) == p.startIndex <= i /\ i <= LastIndex(p)

\* C3: every proof element spans from a \begin{proof} to the first
\* \end{proof} at which the running count reaches 0, and the count is
\* positive at every position of the span before that
C3_ProofDepthMatching ==
  \A k \in 1..Len(proofs) :
    LET p == proofs[k]
        b == p.startIndex
        e == LastIndex(p)
    IN /\ p.fullMatch = substring(text, b, e + 1)
       /\ text[b + 1] = BEGIN_PROOF
       /\ text[e + 1] = END_PROOF
       /\ RunningCount(text, b, e) = 0
       /\ \A j \in (b + 1)..(e - 1) : RunningCount(text, b, j) > 0

\* a returned proof with two levels of proofs nested inside it
C3_Witness ==
  /\ pc = "returned"
  /\ \E k \in 1..Len(proofs) :
       \E j \in proofs[k].startIndex..LastIndex(proofs[k]) :
         RunningCount(text, proofs[k].startIndex, j) = 3

TripleNested == <<BEGIN_PROOF, BEGIN_PROOF, BEGIN_PROOF, END_PROOF, END_PROOF, END_PROOF>>

Occurrences(s, lex) == Cardinality({i \in 1..Len(s) : s[i] = lex})

\* C4: a proof containing a proof containing a proof is returned as one
\* element spanning all three pairs, whose content holds two sub-blocks
\* and no literal \begin{proof} or \end{proof}
C4_NestedProofRendering ==
  (pc = "returned" /\ text = TripleNested) =>
    /\ Len(proofs) = 1
    /\ proofs[1].startIndex = 0
    /\ proofs[1].fullMatch = text
    /\ Occurrences(proofs[1].content, BEGIN_PROOF) = 0
    /\ Occurrences(proofs[1].content, END_PROOF) = 0
    /\ Occurrences(proofs[1].content, " class=\"subproof-header\">") = 2

\* C5: the stable ids of the proofs of one call are pairwise distinct
C5_StableIdsDistinct ==
  \A j, k \in 1..Len(proofs) : j # k => proofs[j].stableId # proofs[k].stableId

\* C8: an unterminated \begin{proof} yields no element and lies in no
\* element's span, scanning resumes right after it, and every terminated
\* \begin{proof} after it starts an element or lies inside one
C8_UnterminatedProof ==
  /\ (pc = "outer" /\ depth > 0) =>
       /\ text[startPos + 1] = BEGIN_PROOF
       /\ ~Terminated(text, startPos)
       /\ pos = startPos + startLength
       /\ \A k \in 1..Len(proofs) : ~Covers(proofs[k], startPos)
  /\ pc = "returned" =>
       \A u \in BeginPositions(text) :
         ~Terminated(text, u) =>
           /\ \A k \in 1..Len(proofs) : ~Covers(proofs[k], u)
           /\ \A b \in BeginPositions(text) :
                (b > u /\ Terminated(text, b)) =>
                  \E k \in 1..Len(proofs) : Covers(proofs[k], b)

\* an unterminated proof with a terminated proof nested in it, extracted
C8_Witness ==
  /\ pc = "returned"
  /\ \E u \in BeginPositions(text) :
       /\ ~Terminated(text, u)
       /\ \E k \in 1..Len(proofs) : proofs[k].startIndex > u

\* ----------------------------- specification: repeated calls of extractProofs
\* a module-level set of ids that survives from one call to the next
usedIdsKept == usedIds

\* const usedIds = new Set() at line 148: every call starts with no ids
usedIdsAtEntry == {}

\* two other source files, converted between two conversions of the same file
OtherFiles == {<<BEGIN_PROOF, "[num 1]", END_PROOF>>,
               <<"\\label{a}", BEGIN_PROOF, END_PROOF, BEGIN_PROOF, END_PROOF>>}

\* the caller records the result of the call that returned and calls
\* extractProofs again (lines 145-149), on the first file or on another one
Reconvert ==
  /\ pc = "returned"
  /\ Len(history) + 1 < MaxCalls
  /\ history' = Append(history, [text |-> text, proofs |-> proofs])
  /\ \E t \in {history'[1].text} \cup OtherFiles : text' = t
  /\ proofs' = <<>>
  /\ pos' = 0
  /\ usedIds' = usedIdsAtEntry
  /\ proofCounter' = 0
  /\ pc' = "outer"
  /\ UNCHANGED <<auxVars, outVars, watchVars, now, startPos, startLength, optionalTitle, depth, searchPos, convVars>>

\* time passes between two readings of Date.now(); the clock is read only at
\* line 238, while a proof is closed, so its advance is observed at the head
\* of the outer loop, before the next proof is looked for
Tick ==
  /\ pc = "outer"
  /\ now < MaxClock
  /\ now' = now + 1
  /\ UNCHANGED <<auxVars, outVars, watchVars, pc, text, proofVars, history, convVars>>

\* the lexemes an id depends on: the delimiters, a title and a label
RerunVocabulary == {BEGIN_PROOF, END_PROOF, "[num 1]", "\\label{a}"}

InitRerun ==
  /\ text \in TextsOver(RerunVocabulary, MaxRerunLen)
  /\ pc = "outer"
  /\ now = 0
  /\ pos = 0
  /\ proofs = <<>>
  /\ usedIds = {}
  /\ proofCounter = 0
  /\ startPos = 0
  /\ startLength = 0
  /\ optionalTitle = <<>>
  /\ depth = 0
  /\ searchPos = 0
  /\ history = <<>>
  /\ ConversionIdle

NextRerun == ExtractProofsStep \/ Reconvert \/ Tick

SpecRerun == InitRerun /\ [][NextRerun]_vars

\* the calls that have returned, the one that has just returned included
ReturnedCalls ==
  IF pc = "returned" THEN Append(history, [text |-> text, proofs |-> proofs])
  ELSE history

StableIds(ps) == [k \in 1..Len(ps) |-> ps[k].stableId]

\* C6: two calls of extractProofs on the same text give every top-level
\* proof the same stableId, whatever was converted in between and whenever
C6_StableIdDeterminism ==
  \A i, j \in 1..Len(ReturnedCalls) :
    ReturnedCalls[i].text = ReturnedCalls[j].text =>
      StableIds(ReturnedCalls[i].proofs) = StableIds(ReturnedCalls[j].proofs)

\* a file with two proofs converted, then another file, then the first again
C6_Witness ==
  /\ pc = "returned"
  /\ Len(history) = 2
  /\ history[1].text = text
  /\ history[2].text # text
  /\ Len(history[2].proofs) > 0
  /\ Len(proofs) > 1
  /\ now > 0

\* C7: two conversions of the same text give identical ids to all proof
\* blocks, the nested sub-proof blocks inside the proofs' content included
C7_AllIdsDeterministic ==
  \A i, j \in 1..Len(ReturnedCalls) :
    ReturnedCalls[i].text = ReturnedCalls[j].text =>
      ReturnedCalls[i].proofs = ReturnedCalls[j].proofs

\* -------------------------------------------------------- extractTheorems
\* theoremTypes at line 56
TheoremTypes ==
  <<"theorem", "lemma", "proposition", "corollary", "definition",
    "example", "remark", "conjecture", "claim", "fact",
    "notation", "axiom", "construction", "exercise", "problem">>

\* `\\begin\{${envName}\}` and `\\end\{${envName}\}` of the pattern at line 57
beginLexeme(envName) ==
  CASE envName = "theorem" -> "\\begin{theorem}"
    [] envName = "lemma" -> "\\begin{lemma}"
    [] envName = "proposition" -> "\\begin{proposition}"
    [] envName = "corollary" -> "\\begin{corollary}"
    [] envName = "definition" -> "\\begin{definition}"
    [] envName = "example" -> "\\begin{example}"
    [] envName = "remark" -> "\\begin{remark}"
    [] envName = "conjecture" -> "\\begin{conjecture}"
    [] envName = "claim" -> "\\begin{claim}"
    [] envName = "fact" -> "\\begin{fact}"
    [] envName = "notation" -> "\\begin{notation}"
    [] envName = "axiom" -> "\\begin{axiom}"
    [] envName = "construction" -> "\\begin{construction}"
    [] envName = "exercise" -> "\\begin{exercise}"
    [] envName = "problem" -> "\\begin{problem}"

endLexeme(envName) ==
  CASE envName = "theorem" -> "\\end{theorem}"
    [] envName = "lemma" -> "\\end{lemma}"
    [] envName = "proposition" -> "\\end{proposition}"
    [] envName = "corollary" -> "\\end{corollary}"
    [] envName = "definition" -> "\\end{definition}"
    [] envName = "example" -> "\\end{example}"
    [] envName = "remark" -> "\\end{remark}"
    [] envName = "conjecture" -> "\\end{conjecture}"
    [] envName = "claim" -> "\\end{claim}"
    [] envName = "fact" -> "\\end{fact}"
    [] envName = "notation" -> "\\end{notation}"
    [] envName = "axiom" -> "\\end{axiom}"
    [] envName = "construction" -> "\\end{construction}"
    [] envName = "exercise" -> "\\end{exercise}"
    [] envName = "problem" -> "\\end{problem}"

\* the characters of an environment name
envNameText(envName) ==
  CASE envName = "theorem" ->
         <<"t", "h", "e", "o", "r", "e", "m">>
    [] envName = "lemma" ->
         <<"l", "e", "m", "m", "a">>
    [] envName = "proposition" ->
         <<"p", "r", "o", "p", "o", "s", "i", "t", "i", "o", "n">>
    [] envName = "corollary" ->
         <<"c", "o", "r", "o", "l", "l", "a", "r", "y">>
    [] envName = "definition" ->
         <<"d", "e", "f", "i", "n", "i", "t", "i", "o", "n">>
    [] envName = "example" ->
         <<"e", "x", "a", "m", "p", "l", "e">>
    [] envName = "remark" ->
         <<"r", "e", "m", "a", "r", "k">>
    [] envName = "conjecture" ->
         <<"c", "o", "n", "j", "e", "c", "t", "u", "r", "e">>
    [] envName = "claim" ->
         <<"c", "l", "a", "i", "m">>
    [] envName = "fact" ->
         <<"f", "a", "c", "t">>
    [] envName = "notation" ->
         <<"n", "o", "t", "a", "t", "i", "o", "n">>
    [] envName = "axiom" ->
         <<"a", "x", "i", "o", "m">>
    [] envName = "construction" ->
         <<"c", "o", "n", "s", "t", "r", "u", "c", "t", "i", "o", "n">>
    [] envName = "exercise" ->
         <<"e", "x", "e", "r", "c", "i", "s", "e">>
    [] envName = "problem" ->
         <<"p", "r", "o", "b", "l", "e", "m">>

TheoremTypeSet == {TheoremTypes[i] : i \in 1..Len(TheoremTypes)}

isTheoremBegin(lex) == \E n \in TheoremTypeSet : beginLexeme(n) = lex

envNameOf(lex) == CHOOSE n \in TheoremTypeSet : beginLexeme(n) = lex

\* the label table of parseAuxFile: a function from label names to entries
NoLabels == [l \in {} |-> [number |-> <<>>, anchor |-> <<>>]]

UNKNOWN_NUMBER == <<"?">>

\* the names every object literal inherits from Object.prototype; labels is
\* created as {} at lines 16 and 19, so labels[name] finds them
ObjectPrototypeNames == {CONSTRUCTOR}

\* what a template literal prints for the value undefined
UNDEFINED == <<"u", "n", "d", "e", "f", "i", "n", "e", "d">>

\* auxData.labels[label]: the own entry, an inherited property (truthy, with
\* no number and no anchor), or undefined
lookup(labels, label) ==
  IF label \in DOMAIN labels
  THEN [truthy |-> TRUE, number |-> labels[label].number, anchor |-> labels[label].anchor]
  ELSE IF label \in ObjectPrototypeNames
  THEN [truthy |-> TRUE, number |-> UNDEFINED, anchor |-> <<>>]
  ELSE [truthy |-> FALSE, number |-> <<>>, anchor |-> <<>>]

\* content.replace(/\\label\{[^}]+\}/, ''): the first label is removed
removeFirstLabel(content) ==
  LET l == firstIn(content, LabelLexemes)
  IN IF l = -1 THEN content
     ELSE substring(content, 0, l) \o substringFrom(content, l + 1)

\* one candidate start of the pattern at line 57: a theorem-like \begin at
\* 0-based position b whose own \end{NAME} follows
theoremBodyStart(t, b) ==
  b + 1 + (IF b + 1 < Len(t) /\ t[b + 2] \in BracketLexemes THEN 1 ELSE 0)

theoremEndFrom(t, b) ==
  searchSetFrom(t, theoremBodyStart(t, b), {endLexeme(envNameOf(t[b + 1]))})

theoremMatchesAt(t, b) == isTheoremBegin(t[b + 1]) /\ theoremEndFrom(t, b) # -1

\* lines 62-89: the element built from the match that starts at b
theoremElement(t, b, labels, typeCount) ==
  LET envName == envNameOf(t[b + 1])
      bodyStart == theoremBodyStart(t, b)
      e == theoremEndFrom(t, b)
      content == substring(t, bodyStart, e)
      l == firstIn(content, LabelLexemes)
      label == IF l = -1 THEN <<>> ELSE LabelText(content[l + 1])
      number == IF label # <<>> /\ lookup(labels, label).truthy
                THEN lookup(labels, label).number ELSE UNKNOWN_NUMBER
  IN [type |-> "theorem",
      envName |-> envName,
      number |-> number,
      label |-> label,
      title |-> IF bodyStart = b + 2 THEN BracketText(t[b + 2]) ELSE <<>>,
      content |-> processFiguresInContent(
                    convertListsInContent(trim(removeFirstLabel(content)))),
      fullMatch |-> substring(t, b, e + 1),
      startIndex |-> b,
      typeCount |-> typeCount]

\* the exec loop at lines 61-90, from lastIndex on, with the elements so far
RECURSIVE theoremLoop(_, _, _, _)
theoremLoop(t, lastIndex, labels, acc) ==
  LET starts == {b \in lastIndex..(Len(t) - 1) : theoremMatchesAt(t, b)}
  IN IF starts = {} THEN acc
     ELSE LET b == CHOOSE x \in starts : \A y \in starts : x <= y
              envName == envNameOf(t[b + 1])
              typeCount == 1 + Cardinality({k \in 1..Len(acc) : acc[k].envName = envName})
              el == theoremElement(t, b, labels, typeCount)
          IN theoremLoop(t, b + Len(el.fullMatch), labels, Append(acc, el))

extractTheorems(t, labels) == theoremLoop(t, 0, labels, <<>>)

\* -------------------------------- extractSections, Figures, Enumerates, Itemizes
SectionLexemes == {"\\section{S}", "\\subsection{S}"}

sectionLevel(lex) == IF lex = "\\section{S}" THEN "section" ELSE "subsection"

RECURSIVE sectionLoop(_, _, _)
sectionLoop(t, lastIndex, acc) ==
  LET b == searchSetFrom(t, lastIndex, SectionLexemes)
  IN IF b = -1 THEN acc
     ELSE sectionLoop(t, b + 1,
            Append(acc, [type |-> "section", level |-> sectionLevel(t[b + 1]),
                         title |-> <<"S">>, fullMatch |-> <<t[b + 1]>>,
                         startIndex |-> b]))

extractSections(t) == sectionLoop(t, 0, <<>>)

\* the length of the optional (?:\s*\[[^\]]*\])? after \begin{figure} at b
figureOptionLength(t, b) ==
  LET rest == substringFrom(t, b + 1)
      ws == Len(rest) - Len(trimLeft(rest))
  IN IF ws < Len(rest) /\ rest[ws + 1] \in BracketLexemes THEN ws + 1 ELSE 0

RECURSIVE figureLoop(_, _, _)
figureLoop(t, lastIndex, acc) ==
  LET b == searchSetFrom(t, lastIndex, {BEGIN_FIGURE})
      bodyStart == b + 1 + figureOptionLength(t, b)
      e == searchSetFrom(t, bodyStart, {END_FIGURE})
  IN IF b = -1 \/ e = -1 THEN acc
     ELSE figureLoop(t, e + 1,
            Append(acc, [type |-> "figure", content |-> trim(substring(t, bodyStart, e)),
                         fullMatch |-> substring(t, b, e + 1), startIndex |-> b]))

extractFigures(t) == figureLoop(t, 0, <<>>)

RECURSIVE enumerateLoop(_, _, _)
enumerateLoop(t, lastIndex, acc) ==
  LET b == searchSetFrom(t, lastIndex, {BEGIN_ENUMERATE})
      hasOpt == b + 1 < Len(t) /\ t[b + 2] \in BracketLexemes
      bodyStart == b + 1 + (IF hasOpt THEN 1 ELSE 0)
      e == searchSetFrom(t, bodyStart, {END_ENUMERATE})
  IN IF b = -1 \/ e = -1 THEN acc
     ELSE enumerateLoop(t, e + 1,
            Append(acc, [type |-> "enumerate",
                         listType |-> IF hasOpt THEN BracketText(t[b + 2]) ELSE <<>>,
                         content |-> trim(substring(t, bodyStart, e)),
                         fullMatch |-> substring(t, b, e + 1), startIndex |-> b]))

extractEnumerates(t) == enumerateLoop(t, 0, <<>>)

RECURSIVE itemizeLoop(_, _, _)
itemizeLoop(t, lastIndex, acc) ==
  LET b == searchSetFrom(t, lastIndex, {BEGIN_ITEMIZE})
      e == searchSetFrom(t, b + 1, {END_ITEMIZE})
  IN IF b = -1 \/ e = -1 THEN acc
     ELSE itemizeLoop(t, e + 1,
            Append(acc, [type |-> "itemize", content |-> trim(substring(t, b + 1, e)),
                         fullMatch |-> substring(t, b, e + 1), startIndex |-> b]))

extractItemizes(t) == itemizeLoop(t, 0, <<>>)

\* ----------------------------------------------------------- generate*HTML
\* envName.charAt(0).toUpperCase() + envName.slice(1)
capitalize(chars) == <<toUpperCaseChar(Head(chars))>> \o Tail(chars)

\* lines 602-624
generateTheoremHTML(element) ==
  LET envText == envNameText(element.envName)
      anchor == IF element.label # <<>> THEN element.label
                ELSE envText \o <<"-">> \o element.number
      header == <<"<strong>">> \o capitalize(envText) \o <<" ">> \o element.number
                  \o <<"</strong>">>
                  \o (IF element.title # <<>>
                      THEN <<" (">> \o element.title \o <<")">> ELSE <<>>)
      collapsibleId ==
        <<"c", "o", "l", "l", "a", "p", "s", "i", "b", "l", "e", "-">>
          \o (IF element.label # <<>> THEN element.label
              ELSE IF element.title # <<>>
              THEN envText \o <<"-">> \o sanitize(element.title)
              ELSE envText \o <<"-">> \o NumberToString(element.typeCount))
  IN IF element.envName \in {"remark", "example"}
     THEN <<"\n", "<div", " class=\"theorem-box ">> \o envText
            \o <<"-box collapsible-box collapsed\" id=\"">> \o anchor
            \o <<"\" data-collapsible-id=\"">> \o collapsibleId
            \o <<"\">", "\n", "  ", "<div",
                 " class=\"theorem-header clickable\" onclick=\"toggleCollapsible('">>
            \o collapsibleId
            \o <<"')\">", "\n", "    ", "<span class=\"collapsible-icon\">", "</span>",
                 "\n", "    ">>
            \o header
            \o <<"\n", "  ", "</div>", "\n", "  ", "<div",
                 " class=\"theorem-content collapsible-content\" id=\"">>
            \o collapsibleId \o <<"\">">> \o element.content
            \o <<"</div>", "\n", "</div>", "\n">>
     ELSE <<"\n", "<div", " class=\"theorem-box ">> \o envText \o <<"-box\" id=\"">>
            \o anchor
            \o <<"\">", "\n", "  ", "<div", " class=\"theorem-header\">">> \o header
            \o <<"</div>", "\n", "  ", "<div", " class=\"theorem-content\">">>
            \o element.content \o <<"</div>", "\n", "</div>", "\n">>

\* lines 626-629
generateProofHTML(element) ==
  LET proofId == element.stableId
  IN <<"\n", "<div", " class=\"proof-box collapsed\" data-proof-id=\"">> \o proofId
       \o <<"\">", "\n", "  ", "<div", " class=\"proof-header\">", "\n", "    ",
            "<button class=\"proof-toggle\" onclick=\"toggleProof('">>
       \o proofId
       \o <<"')\" aria-expanded=\"false\">", "\n", "    ",
            "<span class=\"proof-toggle-icon\">", "</span>", "\n", "    ", "<strong>">>
       \o element.title
       \o <<"</strong>", "\n", "    ", "</button>", "\n", "  ", "</div>", "\n", "  ",
            "<div", " class=\"proof-content\" id=\"">>
       \o proofId \o <<"\">", "\n", "    ">> \o element.content
       \o <<"\n", "    ", "<span class=\"proof-end\">", "</span>", "\n", "  ", "</div>",
            "\n", "</div>", "\n">>

\* lines 631-635
generateSectionHTML(element) ==
  IF element.level = "section" THEN <<"<h2", ">">> \o element.title \o <<"</h2>">>
  ELSE IF element.level = "subsection" THEN <<"<h3", ">">> \o element.title \o <<"</h3>">>
  ELSE <<"<h4", ">">> \o element.title \o <<"</h4>">>

\* options.imageBasePath of the conversion (watch.js line 352)
imageBasePath == <<".", ".", "/", "f", "i", "g", "u", "r", "e", "s">>

\* the \includegraphics callback of generateFigureHTML (lines 677-724)
RECURSIVE replaceIncludes(_, _, _)
replaceIncludes(s, caption, basePath) ==
  IF s = <<>> THEN <<>>
  ELSE IF Head(s) \in IncludeLexemes
  THEN LET cleanFilename == normalizeFilename(FileNameText(Head(s)))
           fullPath == IF basePath # <<>> /\ Head(cleanFilename) # "/"
                       THEN basePath \o <<"/">> \o cleanFilename ELSE cleanFilename
       IN <<"<img", " src=\"">> \o fullPath
            \o <<"\" alt=\"">> \o (IF caption # <<>> THEN caption ELSE <<"Figure">>)
            \o <<"\" class=\"latex-image\" onerror=\"">> \o fullPath \o <<"\">">>
            \o replaceIncludes(Tail(s), caption, basePath)
  ELSE <<Head(s)>> \o replaceIncludes(Tail(s), caption, basePath)

\* lines 637-752
generateFigureHTML(element, basePath) ==
  LET figContent == element.content
      c == firstIn(figContent, CaptionLexemes)
      caption == IF c = -1 THEN <<>> ELSE CaptionText(figContent[c + 1])
      l == firstIn(figContent, LabelLexemes)
      label == IF l = -1 THEN <<>> ELSE LabelText(figContent[l + 1])
      stripped == removeAll(figContent, CaptionLexemes \cup LabelLexemes \cup {CENTERING})
      processedContent == replaceIncludes(stripped, caption, basePath)
  IN <<"\n", "<figure", " class=\"latex-figure\"">>
       \o (IF label # <<>> THEN <<" id=\"">> \o label \o <<"\"">> ELSE <<>>)
       \o <<">", "\n", "  ", "<div", " class=\"figure-content\">">>
       \o trim(processedContent) \o <<"</div>", "\n">>
       \o (IF caption # <<>>
           THEN <<"  ", "<figcaption>">> \o caption \o <<"</figcaption>", "\n">>
           ELSE <<>>)
       \o <<"</figure>", "\n">>

\* lines 754-775
generateEnumerateHTML(element) ==
  <<"<ol">> \o typeAttrOf(element.listType) \o <<">">> \o listItems(element.content)
    \o <<"</ol>">>

\* lines 777-785
generateItemizeHTML(element) ==
  <<"<ul", ">">> \o listItems(element.content) \o <<"</ul>">>

\* lines 510-523
replacementOf(element) ==
  CASE element.type = "theorem" -> generateTheoremHTML(element)
    [] element.type = "proof" -> generateProofHTML(element)
    [] element.type = "section" -> generateSectionHTML(element)
    [] element.type = "figure" -> generateFigureHTML(element, imageBasePath)
    [] element.type = "enumerate" -> generateEnumerateHTML(element)
    [] element.type = "itemize" -> generateItemizeHTML(element)
    [] OTHER -> <<>>

\* ------------------------------------------------------ convertLaTeXToHTML
\* Array.prototype.sort((a, b) => a.startIndex - b.startIndex): stable
RECURSIVE insertByStartIndex(_, _)
insertByStartIndex(sorted, el) ==
  IF sorted = <<>> THEN <<el>>
  ELSE IF sorted[Len(sorted)].startIndex <= el.startIndex THEN Append(sorted, el)
  ELSE Append(insertByStartIndex(SubSeq(sorted, 1, Len(sorted) - 1), el),
              sorted[Len(sorted)])

RECURSIVE sortFrom(_, _)
sortFrom(sorted, rest) ==
  IF rest = <<>> THEN sorted
  ELSE sortFrom(insertByStartIndex(sorted, Head(rest)), Tail(rest))

sortByStartIndex(elements) == sortFrom(<<>>, elements)

\* a single blank, whatever the length of the span
oneBlank(n) == <<" ">>

\* ' '.repeat(n)
blanks(n) == [k \in 1..n |-> " "]

\* lines 472-477: the boxes are blanked from the last to the first
RECURSIVE maskLoop(_, _, _)
maskLoop(maskedText, allBoxes, i) ==
  IF i < 1 THEN maskedText
  ELSE LET box == allBoxes[i]
       IN maskLoop(substring(maskedText, 0, box.startIndex)
                     \o blanks(Len(box.fullMatch))
                     \o substringFrom(maskedText, box.startIndex + Len(box.fullMatch)),
                   allBoxes, i - 1)

\* lines 469-477
maskedTextOf(texContent, thms, prfs) ==
  LET allBoxes == sortByStartIndex(thms \o prfs)
  IN maskLoop(texContent, allBoxes, Len(allBoxes))

\* lines 467-482
allElementsOf(texContent, thms, prfs, figs) ==
  LET sections == extractSections(texContent)
      maskedText == maskedTextOf(texContent, thms, prfs)
      enumerates == extractEnumerates(maskedText)
      itemizes == extractItemizes(maskedText)
  IN sortByStartIndex(thms \o prfs \o sections \o figs \o enumerates \o itemizes)

\* the integrity check is dropped: every element is spliced in
neverMismatch(textAtPosition, fullMatch) == FALSE

\* line 496
mismatch(textAtPosition, fullMatch) == textAtPosition # fullMatch

\* the length delta of a replacement is forgotten
offsetKept(off, replacement, fullMatch) == off

\* line 528
offsetAfter(off, replacement, fullMatch) == off + Len(replacement) - Len(fullMatch)

\* line 492
indexOf(element, off) == element.startIndex + off

\* line 494
textAtPositionOf(h, element, off) ==
  substring(h, indexOf(element, off), indexOf(element, off) + Len(element.fullMatch))

\* lines 504-505, 527
splicedHtml(h, element, off) ==
  substring(h, 0, indexOf(element, off)) \o replacementOf(element)
    \o substringFrom(h, indexOf(element, off) + Len(element.fullMatch))

\* ------------------------------------------------------------ parseAuxFile
\* An aux file is a sequence of records: \newlabel{label}{{number}{page}
\* {title}{anchor}} (title and anchor optional, <<>> when absent) and
\* \@input{file}.
NewLabel(label, number, anchor) ==
  [kind |-> "newlabel", label |-> label, number |-> number, page |-> <<"1">>,
   title |-> <<>>, anchor |-> anchor, file |-> ""]

Input(file) ==
  [kind |-> "input", label |-> <<>>, number |-> <<>>, page |-> <<>>,
   title |-> <<>>, anchor |-> <<>>, file |-> file]

\* lines 27-28 and 40-41: the entry stored for one \newlabel record
entryOf(r) ==
  [number |-> r.number, page |-> r.page, title |-> r.title,
   anchor |-> IF r.anchor # <<>> THEN r.anchor ELSE r.label]

\* labels[label] = entry
withLabel(labels, label, entry) ==
  [l \in (DOMAIN labels) \cup {label} |-> IF l = label THEN entry ELSE labels[l]]

\* the loops at lines 26-29 and 39-42: every \newlabel record of content, in order
RECURSIVE readLabels(_, _)
readLabels(labels, content) ==
  IF content = <<>> THEN labels
  ELSE IF Head(content).kind = "newlabel"
  THEN readLabels(withLabel(labels, Head(content).label, entryOf(Head(content))),
                  Tail(content))
  ELSE readLabels(labels, Tail(content))

\* fs.existsSync
existsSync(fs, path) == path \in DOMAIN fs

\* every \@input directive is followed, those of the included files too
RECURSIVE readInputsNested(_, _, _)
readInputsNested(labels, content, fs) ==
  IF content = <<>> THEN labels
  ELSE IF Head(content).kind = "input" /\ existsSync(fs, Head(content).file)
  THEN readInputsNested(
         readInputsNested(readLabels(labels, fs[Head(content).file]),
                          fs[Head(content).file], fs),
         Tail(content), fs)
  ELSE readInputsNested(labels, Tail(content), fs)

\* the loop at lines 32-44: every \@input directive of the primary content
RECURSIVE readInputs(_, _, _)
readInputs(labels, content, fs) ==
  IF content = <<>> THEN labels
  ELSE IF Head(content).kind = "input" /\ existsSync(fs, Head(content).file)
  THEN readInputs(readLabels(labels, fs[Head(content).file]), Tail(content), fs)
  ELSE readInputs(labels, Tail(content), fs)

\* one pass in document order: an included file is read where its \@input
\* stands, so a later primary definition overwrites it
RECURSIVE readInDocumentOrder(_, _, _)
readInDocumentOrder(labels, content, fs) ==
  IF content = <<>> THEN labels
  ELSE IF Head(content).kind = "newlabel"
  THEN readInDocumentOrder(withLabel(labels, Head(content).label, entryOf(Head(content))),
                           Tail(content), fs)
  ELSE IF existsSync(fs, Head(content).file)
  THEN readInDocumentOrder(readLabels(labels, fs[Head(content).file]), Tail(content), fs)
  ELSE readInDocumentOrder(labels, Tail(content), fs)

parseAuxFileSinglePass(path, fs) ==
  IF path = "" \/ ~existsSync(fs, path) THEN NoLabels
  ELSE readInDocumentOrder(NoLabels, fs[path], fs)

\* lines 13-52
parseAuxFile(path, fs) ==
  IF path = "" \/ ~existsSync(fs, path) THEN NoLabels
  ELSE readInputs(readLabels(NoLabels, fs[path]), fs[path], fs)

\* convertLaTeXToHTML line 455
ParseAux ==
  /\ pc = "parseAux"
  /\ auxData' = parseAuxFile(auxPath, files)
  /\ pc' = "parsed"
  /\ UNCHANGED <<auxVars, outVars, watchVars, text, now, proofVars, history, theorems, figures, allElements,
                 html, offset, elementIndex, errorLog>>

\* ------------------------------------------------------------- references
\* the reference commands the pattern at lines 428 and 534 matches
RefLexemes == {"\\ref{a}", "\\eqref{b}", "\\cref{constructor}", "\\Cref{a}"}

\* the characters between the braces of a reference lexeme
RefLabel(lex) ==
  IF lex \in {"\\ref{a}", "\\Cref{a}"} THEN <<"a">>
  ELSE IF lex = "\\eqref{b}" THEN <<"b">>
  ELSE IF lex = "\\cref{constructor}" THEN CONSTRUCTOR
  ELSE <<>>

\* \begin{(?:align|equation|gather)[*]?} and its \end at line 533
MathBeginLexemes == {"\\begin{align}", "\\begin{align*}", "\\begin{equation}",
                     "\\begin{equation*}", "\\begin{gather}", "\\begin{gather*}"}
MathEndLexemes == {"\\end{align}", "\\end{align*}", "\\end{equation}",
                   "\\end{equation*}", "\\end{gather}", "\\end{gather*}"}

\* lines 432-439: what one reference command in prose becomes
refReplacement(label, labels) ==
  LET labelData == lookup(labels, label)
  IN IF ~labelData.truthy
     THEN <<"<span class=\"ref-unknown\" title=\"Reference not found: ">> \o label
            \o <<"\">", "[">> \o label \o <<"?]", "</span>">>
     ELSE <<"<a href=\"#">>
            \o (IF labelData.anchor # <<>> THEN labelData.anchor ELSE label)
            \o <<"\" class=\"ref-link\">">> \o labelData.number \o <<"</a>">>

\* lines 427-446
RECURSIVE processReferences(_, _)
processReferences(s, labels) ==
  LET m == firstIn(s, RefLexemes)
  IN IF m = -1 THEN s
     ELSE substring(s, 0, m) \o refReplacement(RefLabel(s[m + 1]), labels)
            \o processReferences(substringFrom(s, m + 1), labels)

\* a reference inside a math block rendered as the prose pass renders it
mathRefAsLink(label, labels) == refReplacement(label, labels)

\* lines 535-540: what one reference command inside a math block becomes
mathRefReplacement(label, labels) ==
  LET labelData == lookup(labels, label)
  IN IF ~labelData.truthy THEN <<"[">> \o label \o <<"?]">>
     ELSE labelData.number

\* the inner replace at line 534, on one math block
RECURSIVE replaceMathRefs(_, _)
replaceMathRefs(mathBlock, labels) ==
  LET m == firstIn(mathBlock, RefLexemes)
  IN IF m = -1 THEN mathBlock
     ELSE substring(mathBlock, 0, m)
            \o mathRefReplacement(RefLabel(mathBlock[m + 1]), labels)
            \o replaceMathRefs(substringFrom(mathBlock, m + 1), labels)

\* lines 533-542: each match of the lazy pattern, left to right
RECURSIVE mathReferences(_, _)
mathReferences(s, labels) ==
  LET b == searchSetFrom(s, 0, MathBeginLexemes)
      e == IF b = -1 THEN -1 ELSE searchSetFrom(s, b + 1, MathEndLexemes)
  IN IF b = -1 \/ e = -1 THEN s
     ELSE substring(s, 0, b) \o replaceMathRefs(substring(s, b, e + 1), labels)
            \o mathReferences(substringFrom(s, e + 1), labels)

\* --------------------------------------------------------- paragraph pass
BLANK_LINE == <<"\n", "\n">>

\* lines 546-548: a blank line is put before and after every figure fragment
RECURSIVE spaceFigures(_)
spaceFigures(s) ==
  LET b == search(s, "<figure")
      e == IF b = -1 THEN -1 ELSE searchSetFrom(s, b + 1, {"</figure>"})
  IN IF b = -1 \/ e = -1 THEN s
     ELSE substring(s, 0, b) \o BLANK_LINE \o substring(s, b, e + 1) \o BLANK_LINE
            \o spaceFigures(substringFrom(s, e + 1))

\* the end of the run of whitespace that starts at 0-based position i
RECURSIVE whitespaceRunEnd(_, _)
whitespaceRunEnd(s, i) ==
  IF i < Len(s) /\ s[i + 1] \in Whitespace THEN whitespaceRunEnd(s, i + 1) ELSE i

\* the first match of /\n\s*\n/ at or after from: <<start, end>>, or <<-1, -1>>
RECURSIVE separatorFrom(_, _)
separatorFrom(s, from) ==
  LET b == searchSetFrom(s, from, {"\n"})
  IN IF b = -1 THEN <<-1, -1>>
     ELSE LET runEnd == whitespaceRunEnd(s, b)
              later == {j \in (b + 1)..(runEnd - 1) : s[j + 1] = "\n"}
          IN IF later = {} THEN separatorFrom(s, runEnd)
             ELSE <<b, 1 + CHOOSE j \in later : \A k \in later : k <= j>>

\* String.prototype.split(/\n\s*\n/)
RECURSIVE splitOnBlankLines(_)
splitOnBlankLines(s) ==
  LET m == separatorFrom(s, 0)
  IN IF m[1] = -1 THEN <<s>>
     ELSE <<substring(s, 0, m[1])>> \o splitOnBlankLines(substringFrom(s, m[2]))

\* the first lexemes of the fragments /^<(figure|h\d|div|ol|ul)/ matches
BlockStarts == {"<figure", "<h2", "<h3", "<h4", "<div", "<ol", "<ul"}

\* lines 551-554
wrapParagraph(para) ==
  IF Head(para) \in BlockStarts THEN para ELSE <<"<p>">> \o para \o <<"</p>">>

\* Array.prototype.join('\n')
RECURSIVE joinLines(_)
joinLines(paras) ==
  IF paras = <<>> THEN <<>>
  ELSE IF Len(paras) = 1 THEN paras[1]
  ELSE paras[1] \o <<"\n">> \o joinLines(Tail(paras))

\* .map(trim).filter(nonempty).map(wrap)
RECURSIVE wrapParagraphs(_)
wrapParagraphs(paras) ==
  IF paras = <<>> THEN <<>>
  ELSE IF trim(Head(paras)) = <<>> THEN wrapParagraphs(Tail(paras))
  ELSE <<wrapParagraph(trim(Head(paras)))>> \o wrapParagraphs(Tail(paras))

\* lines 546-555
paragraphs(s) == joinLines(wrapParagraphs(splitOnBlankLines(spaceFigures(s))))

\* ------------------------------------------------- layout commands, accents
\* String.prototype.replace(pattern, replacement) with the g flag, for a
\* pattern that is a fixed sequence of lexemes
RECURSIVE replaceSeq(_, _, _)
replaceSeq(s, pat, replacement) ==
  LET matches == {i \in 0..(Len(s) - Len(pat)) : SubSeq(s, i + 1, i + Len(pat)) = pat}
  IN IF matches = {} THEN s
     ELSE LET m == CHOOSE i \in matches : \A j \in matches : i <= j
          IN substring(s, 0, m) \o replacement
               \o replaceSeq(substringFrom(s, m + Len(pat)), pat, replacement)

\* line 557
RECURSIVE replaceCenters(_)
replaceCenters(s) ==
  LET b == search(s, "\\begin{center}")
      e == IF b = -1 THEN -1 ELSE searchSetFrom(s, b + 1, {"\\end{center}"})
  IN IF b = -1 \/ e = -1 THEN s
     ELSE substring(s, 0, b) \o <<"<div", " style=\"text-align: center;\">">>
            \o substring(s, b + 1, e) \o <<"</div>">>
            \o replaceCenters(substringFrom(s, e + 1))

VspaceLexemes == {"\\vspace{1em}", "\\vspace*{1em}"}
HspaceLexemes == {"\\hspace{1em}"}

PageBreakLexemes == {"\\newpage", "\\clearpage", "\\pagebreak"}
LayoutLexemes ==
  VspaceLexemes \cup HspaceLexemes \cup PageBreakLexemes
    \cup {"\\noindent", "\\medskip", "\\bigskip"}

\* what one layout command of lines 559-566 becomes
layoutReplacement(lex) ==
  IF lex \in VspaceLexemes THEN <<"<div", " style=\"margin: 1em 0;\">", "</div>">>
  ELSE IF lex = "\\noindent" THEN <<"<span class=\"noindent\">", "</span>">>
  ELSE IF lex = "\\medskip" THEN <<"<br>">>
  ELSE IF lex = "\\bigskip" THEN <<"<br>", "<br>">>
  ELSE <<>>

\* lines 559-566, one command at a time; \noindent takes the whitespace after it
RECURSIVE replaceLayout(_)
replaceLayout(s) ==
  LET m == firstIn(s, LayoutLexemes)
  IN IF m = -1 THEN s
     ELSE substring(s, 0, m) \o layoutReplacement(s[m + 1])
            \o replaceLayout(substringFrom(s,
                  IF s[m + 1] = "\\noindent" THEN whitespaceRunEnd(s, m + 1) ELSE m + 1))

\* lines 557-566
layoutCommands(s) == replaceLayout(replaceCenters(s))

\* the two characters \" that start an accent command
UMLAUT == "\\\""

\* the letters of lines 569-578, in the order of the source
AccentLetters == <<"o", "O", "a", "A", "u", "U", "i", "I", "e", "E">>

accented(letter) ==
  CASE letter = "o" -> "ö" [] letter = "O" -> "Ö"
    [] letter = "a" -> "ä" [] letter = "A" -> "Ä"
    [] letter = "u" -> "ü" [] letter = "U" -> "Ü"
    [] letter = "i" -> "ï" [] letter = "I" -> "Ï"
    [] letter = "e" -> "ë" [] letter = "E" -> "Ë"

\* lines 569-578: \"o and its like, one replace per letter
RECURSIVE bareAccents(_, _)
bareAccents(s, k) ==
  IF k > Len(AccentLetters) THEN s
  ELSE bareAccents(replaceSeq(s, <<UMLAUT, AccentLetters[k]>>,
                              <<accented(AccentLetters[k])>>), k + 1)

\* lines 579-588: \"{o} and its like, one replace per letter
RECURSIVE bracedAccents(_, _)
bracedAccents(s, k) ==
  IF k > Len(AccentLetters) THEN s
  ELSE bracedAccents(replaceSeq(s, <<UMLAUT, "{", AccentLetters[k], "}">>,
                                <<accented(AccentLetters[k])>>), k + 1)

\* lines 569-588
accents(s) == bracedAccents(bareAccents(s, 1), 1)

\* the first "}" at or after 0-based position from, or -1
closingBrace(s, from) == searchSetFrom(s, from, {"}"})

\* one of lines 590-593: \cmd{([^}]+)} becomes open $1 close, left to right
RECURSIVE replaceCommand(_, _, _, _)
replaceCommand(s, cmd, open, close) ==
  LET matches == {i \in 0..(Len(s) - 2) :
                    s[i + 1] = cmd /\ s[i + 2] = "{" /\ closingBrace(s, i + 2) > i + 2}
  IN IF matches = {} THEN s
     ELSE LET m == CHOOSE i \in matches : \A j \in matches : i <= j
              e == closingBrace(s, m + 2)
          IN substring(s, 0, m) \o <<open>> \o substring(s, m + 2, e) \o <<close>>
               \o replaceCommand(substringFrom(s, e + 1), cmd, open, close)

\* lines 590-593
inlineFormatting(s) ==
  replaceCommand(
    replaceCommand(
      replaceCommand(
        replaceCommand(s, "\\emph", "<em>", "</em>"),
        "\\textbf", "<strong>", "</strong>"),
      "\\textit", "<em>", "</em>"),
    "\\texttt", "<code>", "</code>")

\* lines 568-593: the accent and inline-formatting pass
formattingPass(s) == inlineFormatting(accents(s))

\* ------------------------------------------------------ generateHTMLDocument
\* the depth with the file name counted as a directory
getPathDepthCountingFile(parts) ==
  LET htmlPreviewIndex == search(parts, "html_preview")
  IN IF htmlPreviewIndex = -1 THEN 1
     ELSE Len(parts) - htmlPreviewIndex - 1

\* lines 788-796: outputPath.split(path.sep), indexOf('html_preview')
getPathDepth(parts) ==
  LET htmlPreviewIndex == search(parts, "html_preview")
  IN IF htmlPreviewIndex = -1 THEN 1
     ELSE Len(parts) - htmlPreviewIndex - 2

\* '../'.repeat(count); the count is never negative for a path that ends in
\* a file name
RECURSIVE repeatUp(_)
repeatUp(count) == IF count <= 0 THEN <<>> ELSE <<"../">> \o repeatUp(count - 1)

\* lines 798-801: an empty outputPath is falsy
pathPrefixOf(parts) == repeatUp(IF parts # <<>> THEN getPathDepth(parts) ELSE 1)

\* lines 798-1638: the document, as far as the conversion determines it
generateHTMLDocument(bodyContent, parts) ==
  [pathPrefix |-> pathPrefixOf(parts), body |-> bodyContent]

\* the source file of the conversion, texPath
TEX_PATH == "src/ch/a.tex"

\* line 454: fs.readFileSync throws; nothing is caught inside the function
ConvertThrows ==
  /\ pc = "convert"
  /\ TEX_PATH \notin readable
  /\ pc' = "threw"
  /\ UNCHANGED <<auxVars, outVars, watchVars, text, now, proofVars, history, convVars>>

\* lines 454-466: the aux file is parsed, figures and theorems are extracted,
\* extractProofs is entered
ConvertStart ==
  /\ pc = "convert"
  /\ TEX_PATH \in readable
  /\ auxData' = parseAuxFile(auxPath, files)
  /\ figures' = extractFigures(text)
  /\ theorems' = extractTheorems(text, auxData')
  /\ pc' = "outer"
  /\ UNCHANGED <<auxVars, outVars, watchVars, text, now, proofVars, history,
                 allElements, html, offset, elementIndex, errorLog>>

\* lines 467-490: extractProofs has returned; sections, masking, lists, merge
MergeElements ==
  /\ pc = "returned"
  /\ allElements' = allElementsOf(text, theorems, proofs, figures)
  /\ html' = text
  /\ offset' = 0
  /\ elementIndex' = 1
  /\ pc' = "splice"
  /\ UNCHANGED <<auxVars, outVars, watchVars, text, now, proofVars, history, auxData, theorems, figures, errorLog>>

\* lines 496-502: the text at the position is not the element's source
SpliceSkip ==
  /\ pc = "splice"
  /\ elementIndex <= Len(allElements)
  /\ LET element == allElements[elementIndex]
     IN /\ mismatch(textAtPositionOf(html, element, offset), element.fullMatch)
        /\ errorLog' = Append(errorLog,
             [position |-> indexOf(element, offset),
              expected |-> element.fullMatch,
              found |-> textAtPositionOf(html, element, offset)])
  /\ elementIndex' = elementIndex + 1
  /\ UNCHANGED <<auxVars, outVars, watchVars, pc, text, now, proofVars, history, auxData, theorems, figures,
                 allElements, html, offset>>

\* lines 504-530: the element's source is replaced by its fragment
SpliceReplace ==
  /\ pc = "splice"
  /\ elementIndex <= Len(allElements)
  /\ LET element == allElements[elementIndex]
     IN /\ ~mismatch(textAtPositionOf(html, element, offset), element.fullMatch)
        /\ html' = splicedHtml(html, element, offset)
        /\ offset' = offsetAfter(offset, replacementOf(element), element.fullMatch)
  /\ elementIndex' = elementIndex + 1
  /\ UNCHANGED <<auxVars, outVars, watchVars, pc, text, now, proofVars, history, auxData, theorems, figures,
                 allElements, errorLog>>

\* line 531: the for-of loop has visited every element
SpliceEnd ==
  /\ pc = "splice"
  /\ elementIndex > Len(allElements)
  /\ pc' = "spliced"
  /\ UNCHANGED <<auxVars, outVars, watchVars, text, now, proofVars, history, convVars>>

\* lines 533-542: references inside math blocks
MathReferences ==
  /\ pc = "spliced"
  /\ html' = mathReferences(html, auxData)
  /\ pc' = "mathDone"
  /\ UNCHANGED <<auxVars, outVars, watchVars, text, now, proofVars, history, auxData,
                 theorems, figures, allElements, offset, elementIndex, errorLog>>

\* line 544: the references that are left
ProseReferences ==
  /\ pc = "mathDone"
  /\ html' = processReferences(html, auxData)
  /\ pc' = "refsDone"
  /\ UNCHANGED <<auxVars, outVars, watchVars, text, now, proofVars, history, auxData,
                 theorems, figures, allElements, offset, elementIndex, errorLog>>

\* lines 546-555
Paragraphs ==
  /\ pc = "refsDone"
  /\ html' = paragraphs(html)
  /\ pc' = "paragraphsDone"
  /\ UNCHANGED <<auxVars, outVars, watchVars, text, now, proofVars, history, auxData,
                 theorems, figures, allElements, offset, elementIndex, errorLog>>

\* lines 557-595; the replace of line 595 puts back what it matched
Formatting ==
  /\ pc = "paragraphsDone"
  /\ html' = formattingPass(layoutCommands(html))
  /\ pc' = "formatted"
  /\ UNCHANGED <<auxVars, outVars, watchVars, text, now, proofVars, history, auxData,
                 theorems, figures, allElements, offset, elementIndex, errorLog>>

\* lines 597-598
WriteOutput ==
  /\ pc = "formatted"
  /\ output' = Append(output, generateHTMLDocument(html, outputPath))
  /\ pc' = "written"
  /\ UNCHANGED <<auxVars, watchVars, outputPath, siteRoot, text, now, proofVars,
                 history, convVars>>

\* ----------------------------------- specification: one conversion's splice
ConvertVocabulary == {"\\begin{theorem}", "\\end{theorem}", BEGIN_PROOF, END_PROOF,
                      "\\section{S}", BEGIN_ITEMIZE, END_ITEMIZE, "x"}

\* documents with references in prose and in math blocks
RefVocabulary == {"\\begin{align}", "\\end{align}", "\\ref{a}", "\\eqref{b}",
                  "\\cref{constructor}"}

\* documents with labelled theorem-like environments
TheoremVocabulary == {"\\begin{lemma}", "\\end{lemma}", "\\begin{remark}",
                      "\\end{remark}", "\\label{a}", "\\label{b}",
                      "\\label{constructor}"}

\* documents with images inside and outside figure environments
FigureVocabulary == {BEGIN_FIGURE, END_FIGURE, "\\includegraphics{plot.pdf}",
                     "\\includegraphics{plot}", "\\caption{c}", "x"}

\* build/main.aux with one label, a, numbered 1.2
RefAuxFiles == [f \in {"main.aux"} |-> <<NewLabel(<<"a">>, <<"1", ".", "2">>, <<"t", ":", "1">>)>>]

\* where a conversion may be asked to write: the site root, directories
\* below it, a file name
DirNames == {"ch", "html_preview"}
SiteRoots == {OUTPUT_DIR, <<"srv", "html_preview">>, <<"html_preview", "site">>, <<"out">>}
OutputPlacements ==
  {<<root, root \o dirs \o <<"a.html">>>> :
     root \in SiteRoots, dirs \in TextsOver(DirNames, MaxDirs)}

InitConvert ==
  /\ \/ /\ text \in TextsOver(ConvertVocabulary, MaxTexLen)
        /\ files = <<>>
        /\ auxPath = ""
        /\ readable = {TEX_PATH}
        /\ outputPath = DefaultOutputPath /\ siteRoot = OUTPUT_DIR
     \/ /\ text \in TextsOver(RefVocabulary, MaxRefLen)
        /\ files = RefAuxFiles
        /\ auxPath \in {"main.aux", "none.aux", ""}
        /\ readable = {TEX_PATH}
        /\ outputPath = DefaultOutputPath /\ siteRoot = OUTPUT_DIR
     \/ /\ text \in TextsOver(TheoremVocabulary, MaxTheoremLen)
        /\ files = RefAuxFiles
        /\ auxPath \in {"main.aux", ""}
        /\ readable = {TEX_PATH}
        /\ outputPath = DefaultOutputPath /\ siteRoot = OUTPUT_DIR
     \/ /\ text \in TextsOver(FigureVocabulary, MaxFigLen)
        /\ files = <<>>
        /\ auxPath = ""
        /\ readable = {TEX_PATH}
        /\ outputPath = DefaultOutputPath /\ siteRoot = OUTPUT_DIR
     \/ /\ text \in TextsOver({"x"}, 1)
        /\ files = <<>>
        /\ auxPath = ""
        /\ readable \in SUBSET {TEX_PATH}
        /\ \E placement \in OutputPlacements :
             siteRoot = placement[1] /\ outputPath = placement[2]
  /\ pc = "convert"
  /\ now = 0
  /\ pos = 0
  /\ proofs = <<>>
  /\ usedIds = {}
  /\ proofCounter = 0
  /\ startPos = 0
  /\ startLength = 0
  /\ optionalTitle = <<>>
  /\ depth = 0
  /\ searchPos = 0
  /\ history = <<>>
  /\ auxData = NoLabels
  /\ theorems = <<>>
  /\ figures = <<>>
  /\ allElements = <<>>
  /\ html = <<>>
  /\ offset = 0
  /\ elementIndex = 0
  /\ errorLog = <<>>
  /\ output = <<>>
  /\ BuildIdle
  /\ onDisk = {TEX_PATH}

NextConvert ==
  \/ ConvertStart
  \/ ConvertThrows
  \/ ExtractProofsStep
  \/ MergeElements
  \/ SpliceSkip
  \/ SpliceReplace
  \/ SpliceEnd
  \/ MathReferences
  \/ ProseReferences
  \/ Paragraphs
  \/ Formatting
  \/ WriteOutput

SpecConvert == InitConvert /\ [][NextConvert]_vars

\* -------------------------------------------- claims on the splice loop
\* the spans of the elements are pairwise disjoint and in ascending order
NonOverlapping(elements) ==
  \A i, j \in 1..Len(elements) :
    i < j => LastIndex(elements[i]) < elements[j].startIndex

\* one left-to-right pass: the original text between the spans, and each
\* element's fragment in place of its span
RECURSIVE FoldFrom(_, _, _, _)
FoldFrom(t, elements, k, cursor) ==
  IF k > Len(elements) THEN SubSeq(t, cursor + 1, Len(t))
  ELSE SubSeq(t, cursor + 1, elements[k].startIndex)
         \o replacementOf(elements[k])
         \o FoldFrom(t, elements, k + 1, LastIndex(elements[k]) + 1)

\* C1: with pairwise disjoint, sorted spans the splice loop yields the
\* original text outside the spans, unchanged and in order, with every
\* element's fragment in place of its span
C1_SpliceOffsetIntegrity ==
  (pc = "spliced" /\ NonOverlapping(allElements)) =>
    html = FoldFrom(text, allElements, 1, 0)

\* three disjoint elements with original text before and between them
C1_Witness ==
  /\ pc = "spliced"
  /\ NonOverlapping(allElements)
  /\ Len(allElements) >= 2
  /\ allElements[1].startIndex > 0
  /\ allElements[2].startIndex > LastIndex(allElements[1]) + 1
  /\ offset > 0

\* C2: in the splice loop a mismatching element leaves html and offset
\* unchanged, a replacement is written only over the element's fullMatch,
\* and every step moves on to the next element until the list is exhausted
C2_SpliceIntegrityCheck ==
  [][(pc = "splice" /\ elementIndex <= Len(allElements)) =>
       LET element == allElements[elementIndex]
           index == element.startIndex + offset
           found == substring(html, index, index + Len(element.fullMatch))
       IN /\ pc' = "splice"
          /\ elementIndex' = elementIndex + 1
          /\ found # element.fullMatch => (html' = html /\ offset' = offset)
          /\ html' # html =>
               /\ found = element.fullMatch
               /\ html' = substring(html, 0, index) \o replacementOf(element)
                            \o substringFrom(html, index + Len(element.fullMatch))]_vars

\* the second of three elements was skipped (one diagnostic, at a position
\* before the last element) and the last element was spliced in after it
C2_Witness ==
  /\ pc = "spliced"
  /\ Len(errorLog) = 1
  /\ Len(allElements) = 3
  /\ LET last == allElements[3]
         fragment == replacementOf(last)
     IN /\ Len(html) >= Len(fragment)
        /\ errorLog[1].position < Len(html) - Len(fragment)
        /\ substringFrom(html, Len(html) - Len(fragment)) = fragment

\* -------------------------------------------- claims on extractTheorems
\* 1 + (number of \begin{NAME}) - (number of \end{NAME}) among the lexemes of
\* t at 0-based positions b+1 .. j, NAME being the environment opened at b
EnvRunningCount(t, b, j) ==
  LET envName == envNameOf(t[b + 1])
  IN 1 + Cardinality({i \in (b + 1)..j : t[i + 1] = beginLexeme(envName)})
       - Cardinality({i \in (b + 1)..j : t[i + 1] = endLexeme(envName)})

\* the \begin{NAME} at position b has an \end{NAME} of its own
EnvTerminated(t, b) == \E j \in (b + 1)..(Len(t) - 1) : EnvRunningCount(t, b, j) = 0

\* C9: a theorem-like \begin{NAME} with no \end{NAME} of its own starts no
\* element, also when a complete environment of the same NAME follows it
C9_UnterminatedTheorem ==
  \A k \in 1..Len(theorems) : EnvTerminated(text, theorems[k].startIndex)

\* ------------------------------------------------- claims on the references
\* how many times the sequence pat occurs in s
CountSeq(s, pat) ==
  Cardinality({i \in 0..(Len(s) - Len(pat)) : SubSeq(s, i + 1, i + Len(pat)) = pat})

\* the body of the document the conversion has written
WrittenBody == output[Len(output)].body

\* the 0-based position i lies inside a math block: a \begin of a math
\* environment precedes it with no \end of one in between, and one follows
InsideMath(t, i) ==
  /\ \E b \in 0..(i - 1) :
       /\ t[b + 1] \in MathBeginLexemes
       /\ \A j \in (b + 1)..(i - 1) : t[j + 1] \notin MathEndLexemes
  /\ \E e \in (i + 1)..(Len(t) - 1) : t[e + 1] \in MathEndLexemes

\* the positions of the reference commands to label, all of them or those in prose
RefPositions(t, label) ==
  {i \in 0..(Len(t) - 1) : t[i + 1] \in RefLexemes /\ RefLabel(t[i + 1]) = label}
ProseRefPositions(t, label) == {i \in RefPositions(t, label) : ~InsideMath(t, i)}

RefLabels == {RefLabel(lex) : lex \in RefLexemes}

\* the flagged marker of an unresolved reference, and the marker's core
UnresolvedMarker(label) ==
  <<"<span class=\"ref-unknown\" title=\"Reference not found: ">> \o label
    \o <<"\">", "[">> \o label \o <<"?]", "</span>">>
MarkerCore(label) == <<"[">> \o label \o <<"?]">>

\* the opening of an anchor link, whatever its target
ANCHOR_OPEN == "<a href=\"#"

\* the aux path is absent or names no file
AuxMissing == auxPath = "" \/ auxPath \notin DOMAIN files

\* C11: with no aux file the label table is empty, nothing is thrown, the
\* output file is written, and every reference command of the document is
\* rendered as an unresolved marker carrying its label
C11_MissingLabelTable ==
  AuxMissing =>
    /\ pc \notin {"convert", "threw"} => auxData = NoLabels
    /\ TEX_PATH \in readable => pc # "threw"
    /\ pc = "written" =>
         /\ Len(output) = 1
         /\ \A i \in 1..Len(WrittenBody) :
              WrittenBody[i] \notin RefLexemes /\ WrittenBody[i] # ANCHOR_OPEN
         /\ \A label \in RefLabels :
              CountSeq(WrittenBody, MarkerCore(label))
                = Cardinality(RefPositions(text, label))

\* what the two reference passes leave of a text in which every reference
\* names a label of the table: the bare number inside a math block, an anchor
\* link to the label's anchor, showing the number, outside
RECURSIVE ExpectedReferences(_, _, _)
ExpectedReferences(t, i, labels) ==
  IF i >= Len(t) THEN <<>>
  ELSE (IF t[i + 1] \notin RefLexemes THEN <<t[i + 1]>>
        ELSE IF InsideMath(t, i) THEN labels[RefLabel(t[i + 1])].number
        ELSE <<ANCHOR_OPEN>> \o labels[RefLabel(t[i + 1])].anchor
               \o <<"\" class=\"ref-link\">">> \o labels[RefLabel(t[i + 1])].number
               \o <<"</a>">>)
       \o ExpectedReferences(t, i + 1, labels)

AllRefsResolvable(t, labels) ==
  \A i \in 1..Len(t) : t[i] \in RefLexemes => RefLabel(t[i]) \in DOMAIN labels

\* C12: a reference to a label of the table becomes the bare number inside
\* an align/equation/gather block and an anchor link outside; the math pass
\* has run when the prose pass starts, so no math reference becomes a link
C12_MathVersusProseReferences ==
  /\ (pc = "refsDone" /\ allElements = <<>> /\ AllRefsResolvable(text, auxData)) =>
       html = ExpectedReferences(text, 0, auxData)
  /\ pc = "mathDone" =>
       \A i \in 0..(Len(text) - 1) :
         (text[i + 1] \in RefLexemes /\ InsideMath(text, i)) =>
           Occurrences(html, text[i + 1])
             = Cardinality({j \in ProseRefPositions(text, RefLabel(text[i + 1])) :
                              text[j + 1] = text[i + 1]})

C12_Witness ==
  /\ pc = "refsDone"
  /\ auxPath = "main.aux"
  /\ text = <<"\\begin{align}", "\\ref{a}", "\\end{align}", "\\ref{a}">>
  /\ html = <<"\\begin{align}", "1", ".", "2", "\\end{align}",
              ANCHOR_OPEN, "t", ":", "1", "\" class=\"ref-link\">", "1", ".", "2", "</a>">>

\* C13: a reference command in prose whose label is not in the table becomes
\* a flagged marker carrying the label name, and no anchor link is emitted
\* for that label; the document is still written
C13_UnresolvedReferenceMarker ==
  pc = "written" =>
    \A label \in RefLabels \ DOMAIN auxData :
      /\ CountSeq(WrittenBody, UnresolvedMarker(label))
           = Cardinality(ProseRefPositions(text, label))
      /\ CountSeq(WrittenBody, <<ANCHOR_OPEN>> \o label) = 0

\* ---------------------------------------------- claims on the theorem blocks
\* the capital initials of the theorem environments, in the order of TheoremTypes
CapitalInitials ==
  <<"T", "L", "P", "C", "D", "E", "R", "C", "C", "F", "N", "A", "C", "E", "P">>

CapitalisedEnv(envName) ==
  LET i == CHOOSE k \in 1..Len(TheoremTypes) : TheoremTypes[k] = envName
  IN <<CapitalInitials[i]>> \o Tail(envNameText(envName))

\* the label of the first \label command in the source of a block, or <<>>
BodyLabel(fullMatch) ==
  LET l == firstIn(fullMatch, LabelLexemes)
  IN IF l = -1 THEN <<>> ELSE LabelText(fullMatch[l + 1])

\* the number a block with body label L is to show: the table's, or '?'
ExpectedNumber(L, labels) ==
  IF L # <<>> /\ L \in DOMAIN labels THEN labels[L].number ELSE <<"?">>

ExpectedHeader(el, labels) ==
  <<"<strong>">> \o CapitalisedEnv(el.envName) \o <<" ">>
    \o ExpectedNumber(BodyLabel(el.fullMatch), labels) \o <<"</strong>">>

\* the block's id attribute is L, in the plain or in the collapsible box
HasBlockId(h, L) ==
  \/ CountSeq(h, <<"-box\" id=\"">> \o L \o <<"\">">>) > 0
  \/ CountSeq(h, <<"-box collapsible-box collapsed\" id=\"">> \o L
                   \o <<"\" data-collapsible-id=\"">>) > 0

\* C14: a theorem-like block whose body holds \label{L} is rendered with id L
\* and header '<Capitalised env> <n>', n the number of L in the label table,
\* or '?' when L is not in the table or the body holds no label
C14_TheoremHeaderAndId ==
  (pc = "spliced" /\ errorLog = <<>>) =>
    \A k \in 1..Len(theorems) :
      LET el == theorems[k]
          L == BodyLabel(el.fullMatch)
      IN /\ L # <<>> => HasBlockId(html, L)
         /\ CountSeq(html, ExpectedHeader(el, auxData)) > 0

\* ------------------------------------------------------ claims on the images
\* the image tags of h whose src attribute ends in file name src
ImageTags(h, src) ==
  {i \in 0..(Len(h) - Len(src) - 2) :
     /\ h[i + 1] = "<img"
     /\ \E k \in 1..(Len(h) - i - Len(src) - 1) :
          /\ SubSeq(h, i + 2 + k, i + 1 + k + Len(src)) = src
          /\ \A j \in (i + 2)..(i + 1 + k + Len(src)) : h[j] # "<img"}

\* C15: every \includegraphics command, inside a figure or standalone, yields
\* an image tag whose file name has .pdf replaced by .png, or .png appended
\* when there was no extension, and no literal \includegraphics is written
C15_ImageExtensionNormalization ==
  (pc = "written" /\ errorLog = <<>>) =>
    /\ \A i \in 1..Len(WrittenBody) : WrittenBody[i] \notin IncludeLexemes
    /\ Cardinality(ImageTags(WrittenBody, <<"p", "l", "o", "t", ".", "p", "n", "g">>))
         = Cardinality({i \in 1..Len(text) : text[i] \in IncludeLexemes})

\* ------------------------------------------------ claims on the path prefix
\* the prefix of the document the conversion has written
WrittenPrefix == output[Len(output)].pathPrefix

Ups(d) == [k \in 1..d |-> "../"]

\* the directories between the site output root and the output file
DirectoriesBelowRoot == Len(outputPath) - Len(siteRoot) - 1

\* the directory segments of the output path after its first segment named
\* html_preview, or 1 when no segment has that name
DirectoriesBelowHtmlPreview ==
  LET named == {i \in 1..Len(outputPath) : outputPath[i] = "html_preview"}
  IN IF named = {} THEN 1
     ELSE LET first == CHOOSE i \in named : \A h \in named : i <= h
          IN Cardinality({j \in 1..(Len(outputPath) - 1) : j > first})

Merged == pc \in {"splice", "spliced", "mathDone", "refsDone", "paragraphsDone",
                  "formatted", "written"}

\* C22: the source spans [startIndex, startIndex + fullMatch.length) of any
\* two elements of the merged element list are disjoint
C22_NonOverlapInvariant ==
  Merged =>
    \A i, j \in 1..Len(allElements) :
      i # j =>
        \/ allElements[i].startIndex + Len(allElements[i].fullMatch)
             <= allElements[j].startIndex
        \/ allElements[j].startIndex + Len(allElements[j].fullMatch)
             <= allElements[i].startIndex

\* C23: no section, figure, enumerate or itemize element of the merged list
\* starts inside the span of an extracted theorem or proof element
C23_PhaseTwoOnMaskedText ==
  Merged =>
    \A i, j \in 1..Len(allElements) :
      (/\ allElements[i].type \in {"theorem", "proof"}
       /\ allElements[j].type \in {"section", "figure", "enumerate", "itemize"}) =>
        ~Covers(allElements[i], allElements[j].startIndex)

\* the text the conversion masks: theorem and proof spans blanked
MaskedText == maskedTextOf(text, theorems, proofs)

\* the 0-based position i lies in the span of a theorem or proof element
InBoxSpan(i) ==
  \/ \E k \in 1..Len(theorems) : Covers(theorems[k], i)
  \/ \E k \in 1..Len(proofs) : Covers(proofs[k], i)

\* C24: the masked text has the length of the original, equals it at every
\* position outside the theorem and proof spans and holds a blank at every
\* position inside them, also when spans overlap
C24_MaskingPreservesOffsets ==
  Merged =>
    /\ Len(MaskedText) = Len(text)
    /\ \A i \in 0..(Len(text) - 1) :
         MaskedText[i + 1] = IF InBoxSpan(i) THEN " " ELSE text[i + 1]

C24_Witness ==
  /\ pc = "splice"
  /\ text = <<"\\begin{theorem}", BEGIN_PROOF, "\\end{theorem}", END_PROOF>>
  /\ Len(theorems) = 1 /\ Len(proofs) = 1
  /\ Covers(theorems[1], 1) /\ Covers(proofs[1], 2)
  /\ MaskedText = <<" ", " ", " ", " ">>

\* ---------------------------------------------- claims on the paragraph pass
\* f occurs in s as a run of consecutive lexemes
OccursIn(f, s) ==
  \E i \in 0..(Len(s) - Len(f)) : SubSeq(s, i + 1, i + Len(f)) = f

\* the fragment generated for an element, without the line breaks around it
FragmentOf(element) == trim(replacementOf(element))

\* C28: every generated block fragment that is in the body before the
\* paragraph pass is in it after the pass exactly as generated, so with no
\* paragraph tag opened or closed inside it, and no chunk that starts with a
\* block-level tag is wrapped in a paragraph container
C28_BlockFragmentsIntact ==
  [][Paragraphs =>
       /\ \A k \in 1..Len(allElements) :
            OccursIn(FragmentOf(allElements[k]), html) =>
              OccursIn(FragmentOf(allElements[k]), html')
       /\ \A i \in 1..(Len(html') - 1) :
            html'[i] = "<p>" => html'[i + 1] \notin BlockStarts]_vars

\* ------------------------- specification: extractProofs on labelled texts
\* texts with labels, a theorem-like environment outside the nine names of
\* line 183, and the end of one inside them
LabelledVocabulary == {BEGIN_PROOF, END_PROOF, "\\label{a}", "\\label{b}",
                       "\\begin{conjecture}", "\\end{conjecture}", "\\end{lemma}"}

InitLabels ==
  /\ text \in TextsOver(LabelledVocabulary, MaxLabelledLen)
  /\ pc = "outer"
  /\ now = 0
  /\ pos = 0
  /\ proofs = <<>>
  /\ usedIds = {}
  /\ proofCounter = 0
  /\ startPos = 0
  /\ startLength = 0
  /\ optionalTitle = <<>>
  /\ depth = 0
  /\ searchPos = 0
  /\ history = <<>>
  /\ ConversionIdle

NextLabels == ExtractProofsStep

SpecLabels == InitLabels /\ [][NextLabels]_vars

\* ------------------------------------------- claims on the label of a proof
HasPrefix(s, p) == Len(p) <= Len(s) /\ SubSeq(s, 1, Len(p)) = p

\* the lexeme at 1-based position i lies inside a theorem-like environment,
\* of any of the fifteen names, that ends before the 0-based position sp
InsideEndedEnvironment(t, i, sp) ==
  \E n \in 1..Len(TheoremTypes) :
    \E b \in 1..(i - 1) :
      \E e \in (i + 1)..sp :
        /\ t[b] = beginLexeme(TheoremTypes[n])
        /\ t[e] = endLexeme(TheoremTypes[n])
        /\ \A k \in (b + 1)..(i - 1) : t[k] # endLexeme(TheoremTypes[n])

\* the positions of the labels before sp that a proof starting at sp may take
AttributableLabels(t, sp) ==
  {i \in 1..sp : t[i] \in LabelLexemes /\ ~InsideEndedEnvironment(t, i, sp)}

\* the nearest of them, <<>> when there is none
NearestLabel(t, sp) ==
  IF AttributableLabels(t, sp) = {} THEN <<>>
  ELSE LabelText(t[CHOOSE i \in AttributableLabels(t, sp) :
                     \A j \in AttributableLabels(t, sp) : j <= i])

\* C25: the label in a proof's stable id is the nearest \label before the
\* proof's start that does not lie inside a theorem-like environment (any of
\* the fifteen names) ending before the proof; with no such label the id is
\* not built from a label
C25_ProofLabelAttribution ==
  \A k \in 1..Len(proofs) :
    LET label == NearestLabel(text, proofs[k].startIndex)
    IN IF label # <<>>
       THEN HasPrefix(proofs[k].stableId, PROOF_FOR \o label)
       ELSE ~HasPrefix(proofs[k].stableId, PROOF_FOR)

\* the optional title of the proof that starts at the 0-based position sp
TitleAt(t, sp) ==
  IF sp + 2 <= Len(t) /\ t[sp + 2] \in BracketLexemes THEN BracketText(t[sp + 2])
  ELSE <<>>

\* base, or base followed by "-" and a number
WithOptionalSuffix(id, base) ==
  \/ id = base
  \/ \E n \in 1..Len(proofs) : id = base \o <<"-">> \o NumberToString(n)

C30_ExtractProofsTerminates ==
  /\ [][ProofStart => startPos' >= pos]_vars
  /\ [][AfterInner => pos' > startPos]_vars
  /\ [][pos' >= pos]_vars
  /\ [][(InnerBegin \/ InnerEnd) => (searchPos' > searchPos /\ pos' = pos)]_vars
  /\ [](pos <= Len(text) /\ searchPos <= Len(text))

\* the call has returned on a text that ends in an unterminated \begin{proof}
\* coming after another unterminated one
C30_Witness ==
  /\ pc = "returned"
  /\ Len(text) >= 3
  /\ text[1] = BEGIN_PROOF
  /\ text[Len(text)] = BEGIN_PROOF
  /\ \A i \in 1..Len(text) : text[i] # END_PROOF
  /\ pos = Len(text)
  /\ proofs = <<>>

\* ---------------------------------------------- specification: parseAuxFile
MainVocabulary == {NewLabel(<<"a">>, <<"1">>, <<>>), NewLabel(<<"b">>, <<"1">>, <<"x">>),
                   Input("ch1.aux"), Input("ch2.aux")}
Ch1Vocabulary == {NewLabel(<<"a">>, <<"2">>, <<>>), NewLabel(<<"b">>, <<"2">>, <<>>),
                  Input("ch2.aux")}
Ch2Vocabulary == {NewLabel(<<"a">>, <<"3">>, <<"y">>), NewLabel(<<"c">>, <<"3">>, <<>>)}

\* the file systems: main.aux always there, each chapter file there or not
AuxFileSystems ==
  {[f \in {"main.aux"} \cup present |->
      IF f = "main.aux" THEN m ELSE IF f = "ch1.aux" THEN c1 ELSE c2] :
     m \in TextsOver(MainVocabulary, MaxAuxLen),
     c1 \in TextsOver(Ch1Vocabulary, MaxChildAuxLen),
     c2 \in TextsOver(Ch2Vocabulary, MaxChildAuxLen),
     present \in SUBSET {"ch1.aux", "ch2.aux"}}

InitAux ==
  /\ files \in AuxFileSystems
  /\ auxPath \in {"main.aux", "none.aux", ""}
  /\ pc = "parseAux"
  /\ text = <<>>
  /\ now = 0
  /\ pos = 0
  /\ proofs = <<>>
  /\ usedIds = {}
  /\ proofCounter = 0
  /\ startPos = 0
  /\ startLength = 0
  /\ optionalTitle = <<>>
  /\ depth = 0
  /\ searchPos = 0
  /\ history = <<>>
  /\ auxData = <<>>
  /\ theorems = <<>>
  /\ figures = <<>>
  /\ allElements = <<>>
  /\ html = <<>>
  /\ offset = 0
  /\ elementIndex = 0
  /\ errorLog = <<>>
  /\ OutputIdle
  /\ WatchIdle

NextAux == ParseAux

SpecAux == InitAux /\ [][NextAux]_vars

\* --------------------------------------------------- claims on parseAuxFile
DefinesLabel(content, label) ==
  \E i \in 1..Len(content) : content[i].kind = "newlabel" /\ content[i].label = label

\* the number of the last \newlabel record for label in content
LastNumber(content, label) ==
  content[CHOOSE i \in 1..Len(content) :
            /\ content[i].kind = "newlabel" /\ content[i].label = label
            /\ \A j \in (i + 1)..Len(content) :
                 ~(content[j].kind = "newlabel" /\ content[j].label = label)].number

\* positions of the \@input directives of the primary file that name an
\* existing file defining label
IncludingPositions(fs, label) ==
  {i \in 1..Len(fs["main.aux"]) :
     /\ fs["main.aux"][i].kind = "input"
     /\ fs["main.aux"][i].file \in DOMAIN fs
     /\ DefinesLabel(fs[fs["main.aux"][i].file], label)}

AuxLabels == {<<"a">>, <<"b">>, <<"c">>}

\* C10: a label defined in the primary file and in an included file gets the
\* included file's entry, wherever the \@input stands; among several
\* included files defining it, the one input last wins
C10_IncludedLabelWins ==
  (pc = "parsed" /\ auxPath = "main.aux") =>
    \A label \in AuxLabels :
      IncludingPositions(files, label) # {} =>
        LET last == CHOOSE i \in IncludingPositions(files, label) :
                      \A j \in IncludingPositions(files, label) : j <= i
        IN /\ label \in DOMAIN auxData
           /\ auxData[label].number =
                LastNumber(files[files["main.aux"][last].file], label)

\* \@input{ch1.aux} stands before the primary definition of a, ch1.aux
\* defines a, and the parsed table holds ch1.aux's number for a
C10_Witness ==
  /\ pc = "parsed"
  /\ auxPath = "main.aux"
  /\ Len(files["main.aux"]) >= 2
  /\ files["main.aux"][1] = Input("ch1.aux")
  /\ files["main.aux"][2] = NewLabel(<<"a">>, <<"1">>, <<>>)
  /\ IncludingPositions(files, <<"a">>) = {1}
  /\ auxData[<<"a">>].number = <<"2">>

\* the labels the \newlabel records of content define
LabelsDefinedIn(content) ==
  {content[i].label : i \in {j \in 1..Len(content) : content[j].kind = "newlabel"}}

\* the files the \@input directives of content name
InputsOf(content) ==
  {content[i].file : i \in {j \in 1..Len(content) : content[j].kind = "input"}}

\* C27: the table holds the labels of the primary file and of the existing
\* files its \@input directives name, and no others: an \@input inside an
\* included file is not followed, and an \@input naming a missing file is
\* skipped while the rest of the table is still built
C27_OneLevelInclusion ==
  (pc = "parsed" /\ auxPath = "main.aux") =>
    DOMAIN auxData =
      LabelsDefinedIn(files["main.aux"])
        \cup UNION {LabelsDefinedIn(files[f]) :
                      f \in InputsOf(files["main.aux"]) \cap DOMAIN files}

\* the primary file inputs ch1.aux and a missing file or nothing else,
\* ch1.aux inputs ch2.aux, only ch2.aux defines c, and c is not in the table
C27_Witness ==
  /\ pc = "parsed"
  /\ auxPath = "main.aux"
  /\ InputsOf(files["main.aux"]) = {"ch1.aux"}
  /\ {"ch1.aux", "ch2.aux"} \subseteq DOMAIN files
  /\ files["ch1.aux"] = <<Input("ch2.aux")>>
  /\ <<"c">> \in LabelsDefinedIn(files["ch2.aux"])
  /\ <<"c">> \notin DOMAIN auxData

\* the primary file inputs a missing file and defines a label, which is in
\* the table
C27_MissingInputSkipped ==
  /\ pc = "parsed"
  /\ auxPath = "main.aux"
  /\ \E f \in InputsOf(files["main.aux"]) : f \notin DOMAIN files
  /\ DOMAIN auxData # {}

\* ------------------------------ specification: the accent and formatting pass
\* lines 568-593 applied to a text, and applied again to what they produced
FormatVocabulary == {UMLAUT, "o", "{", "}", "\\emph", "\\textbf"}

InitFormat ==
  /\ text \in TextsOver(FormatVocabulary, MaxFormatLen)
  /\ pc = "format"
  /\ now = 0
  /\ pos = 0
  /\ proofs = <<>>
  /\ usedIds = {}
  /\ proofCounter = 0
  /\ startPos = 0
  /\ startLength = 0
  /\ optionalTitle = <<>>
  /\ depth = 0
  /\ searchPos = 0
  /\ history = <<>>
  /\ ConversionIdle

\* lines 568-593 on the source text
FormatOnce ==
  /\ pc = "format"
  /\ html' = formattingPass(text)
  /\ pc' = "formatOnce"
  /\ UNCHANGED <<auxVars, outVars, watchVars, text, now, proofVars, history, auxData,
                 theorems, figures, allElements, offset, elementIndex, errorLog>>

\* lines 568-593 on their own result
FormatAgain ==
  /\ pc = "formatOnce"
  /\ html' = formattingPass(html)
  /\ pc' = "formatTwice"
  /\ UNCHANGED <<auxVars, outVars, watchVars, text, now, proofVars, history, auxData,
                 theorems, figures, allElements, offset, elementIndex, errorLog>>

NextFormat == FormatOnce \/ FormatAgain

SpecFormat == InitFormat /\ [][NextFormat]_vars

\* C16: the accent substitutions and the \emph/\textbf/\textit/\texttt
\* rewrites, applied to their own result, change nothing
C16_FormattingIdempotent == [][FormatAgain => html' = html]_vars

\* --------------------------------------------------- specification: watch.js
\* the .tex files under CONFIG.srcDir, in the order fs.readdirSync lists them
SrcFiles == <<"src/ch/a.tex", "src/ch/b.tex">>
SrcFileSet == {SrcFiles[i] : i \in 1..Len(SrcFiles)}

\* the values getFileHash can return for main.tex and preamble.tex
Hashes == {0, 1}

\* the argument of scheduleBuild at line 951, and the one at lines 932-935
FullBuildOptions == [targetFile |-> "", chapter |-> "", skipCompile |-> FALSE]
SingleFileOptions(f) == [targetFile |-> f, chapter |-> "", skipCompile |-> TRUE]

isFullBuild(options) ==
  options.targetFile = "" /\ options.chapter = "" /\ ~options.skipCompile

\* lines 917-922: the timer that was pending is cleared, a new one is set
scheduleBuild(options) == [pending |-> TRUE, options |-> options]

\* the timer has fired, or none was set
NoTimer == [pending |-> FALSE, options |-> NoOptions]

\* the guard that lets every call through
buildNeverInProgress(flag) == FALSE

\* line 836: if (isBuilding)
buildInProgress(flag) == flag

\* the compile decision taken from the hashes alone
needsMainCompileByHash(lastMain, lastPreamble, currentMain, currentPreamble, auxExists) ==
  lastMain # currentMain \/ lastPreamble # currentPreamble

\* lines 860-864
needsMainCompile(lastMain, lastPreamble, currentMain, currentPreamble, auxExists) ==
  lastMain # currentMain \/ lastPreamble # currentPreamble \/ ~auxExists

\* lines 296-326 with no chapter filter: every .tex file that exists
RECURSIVE existingFrom(_, _)
existingFrom(i, disk) ==
  IF i > Len(SrcFiles) THEN <<>>
  ELSE (IF SrcFiles[i] \in disk THEN <<SrcFiles[i]>> ELSE <<>>) \o existingFrom(i + 1, disk)

findTexFiles(disk) == existingFrom(1, disk)

\* convertFileToHTML with the read check dropped
convertFileToHTMLUnchecked(texPath, disk, canRead) ==
  IF texPath \notin disk THEN "notFound" ELSE "written"

\* lines 328-362: null for a missing file, null with the error logged when
\* convertLaTeXToHTML throws (line 454 cannot read the file), else the output
convertFileToHTML(texPath, disk, canRead) ==
  IF texPath \notin disk THEN "notFound"
  ELSE IF texPath \notin canRead THEN "failed"
  ELSE "written"

\* watch mode after the initial build of main(): the watchers are set, no
\* timer is pending, the hashes are those the initial build recorded
InitWatch ==
  /\ ParserIdle
  /\ onDisk \in SUBSET SrcFileSet
  /\ readable \in SUBSET onDisk
  /\ auxOnDisk \in BOOLEAN
  /\ mainHash = 0
  /\ preambleHash = 0
  /\ lastMainFileHash = 0
  /\ lastPreambleHash = 0
  /\ currentMainHash = 0
  /\ currentPreambleHash = 0
  /\ buildTimer = NoTimer
  /\ reloadsSent = 0
  /\ isBuilding = FALSE
  /\ buildPc = "idle"
  /\ buildOptions = NoOptions
  /\ buildAuxPath = ""
  /\ texFiles = <<>>
  /\ fileIndex = 0
  /\ converted = {}
  /\ failed = {}
  /\ events = 0
  /\ owedFull = FALSE
  /\ owed = {}

\* the event loop takes the next callback only while build is suspended at a
\* real await (the pdflatex runs of line 266) or while no build runs
CallbacksRun == buildPc \in {"idle", "compiling"}

\* lines 946-952: the watcher of main.tex reports a change
MainFileChanged ==
  /\ CallbacksRun
  /\ events < MaxEvents
  /\ mainHash' \in Hashes
  /\ buildTimer' = scheduleBuild(FullBuildOptions)
  /\ owedFull' = TRUE
  /\ events' = events + 1
  /\ UNCHANGED <<parserVars, reloadsSent, isBuilding, lastMainFileHash, lastPreambleHash,
                 preambleHash, auxOnDisk, onDisk, readable, currentMainHash,
                 currentPreambleHash, buildPc, buildOptions, buildAuxPath, texFiles,
                 fileIndex, converted, failed, owed>>

\* lines 946-952: the watcher of preamble.tex reports a change
PreambleChanged ==
  /\ CallbacksRun
  /\ events < MaxEvents
  /\ preambleHash' \in Hashes
  /\ buildTimer' = scheduleBuild(FullBuildOptions)
  /\ owedFull' = TRUE
  /\ events' = events + 1
  /\ UNCHANGED <<parserVars, reloadsSent, isBuilding, lastMainFileHash, lastPreambleHash,
                 mainHash, auxOnDisk, onDisk, readable, currentMainHash,
                 currentPreambleHash, buildPc, buildOptions, buildAuxPath, texFiles,
                 fileIndex, converted, failed, owed>>

\* lines 927-938: the watcher of src/ reports a change of a .tex file
SrcFileChanged ==
  /\ CallbacksRun
  /\ events < MaxEvents
  /\ \E f \in SrcFileSet :
       /\ buildTimer' = scheduleBuild(SingleFileOptions(f))
       /\ owed' = owed \cup {f}
  /\ events' = events + 1
  /\ UNCHANGED <<parserVars, reloadsSent, isBuilding, lastMainFileHash, lastPreambleHash,
                 mainHash, preambleHash, auxOnDisk, onDisk, readable, currentMainHash,
                 currentPreambleHash, buildPc, buildOptions, buildAuxPath, texFiles,
                 fileIndex, converted, failed, owedFull>>

\* the timer fires while a build runs: lines 836-839, build returns at once
BuildSkipped ==
  /\ buildTimer.pending
  /\ CallbacksRun
  /\ buildInProgress(isBuilding)
  /\ buildTimer' = NoTimer
  /\ UNCHANGED <<parserVars, reloadsSent, isBuilding, lastMainFileHash, lastPreambleHash,
                 mainHash, preambleHash, auxOnDisk, onDisk, readable, currentMainHash,
                 currentPreambleHash, buildPc, buildOptions, buildAuxPath, texFiles,
                 fileIndex, converted, failed, events, owedFull, owed>>

\* the timer fires while no build runs: lines 836-881 up to the first await
BuildStart ==
  /\ buildTimer.pending
  /\ CallbacksRun
  /\ ~buildInProgress(isBuilding)
  /\ buildTimer' = NoTimer
  /\ isBuilding' = TRUE
  /\ buildOptions' = buildTimer.options
  /\ currentMainHash' = mainHash
  /\ currentPreambleHash' = preambleHash
  /\ IF buildTimer.options.skipCompile
     THEN /\ buildAuxPath' = IF auxOnDisk THEN "main.aux" ELSE ""
          /\ buildPc' = "convert"
     ELSE IF needsMainCompile(lastMainFileHash, lastPreambleHash, mainHash,
                              preambleHash, auxOnDisk)
     THEN /\ buildAuxPath' = ""
          /\ buildPc' = "compiling"
     ELSE /\ buildAuxPath' = "main.aux"
          /\ buildPc' = "convert"
  /\ texFiles' = <<>>
  /\ fileIndex' = 0
  /\ converted' = {}
  /\ failed' = {}
  /\ owedFull' = IF isFullBuild(buildTimer.options) THEN FALSE ELSE owedFull
  /\ UNCHANGED <<parserVars, reloadsSent, lastMainFileHash, lastPreambleHash, mainHash,
                 preambleHash, auxOnDisk, onDisk, readable, events, owed>>

\* lines 875-877: compileMainFile returns the aux path, or null after an
\* error of pdflatex; the hashes read at the start of the build are recorded
CompileFinish ==
  /\ buildPc = "compiling"
  /\ \E succeeded \in BOOLEAN :
       /\ auxOnDisk' = (succeeded \/ auxOnDisk)
       /\ buildAuxPath' = IF succeeded THEN "main.aux" ELSE ""
  /\ lastMainFileHash' = currentMainHash
  /\ lastPreambleHash' = currentPreambleHash
  /\ buildPc' = "convert"
  /\ UNCHANGED <<parserVars, reloadsSent, buildTimer, isBuilding, mainHash, preambleHash, onDisk,
                 readable, currentMainHash, currentPreambleHash, buildOptions,
                 texFiles, fileIndex, converted, failed, events, owedFull, owed>>

\* lines 884-889: the target file, or every file findTexFiles lists
ListFiles ==
  /\ buildPc = "convert"
  /\ texFiles' = IF buildOptions.targetFile # "" THEN <<buildOptions.targetFile>>
                 ELSE findTexFiles(onDisk)
  /\ fileIndex' = 1
  /\ buildPc' = "converting"
  /\ UNCHANGED <<parserVars, reloadsSent, buildTimer, isBuilding, lastMainFileHash,
                 lastPreambleHash, mainHash, preambleHash, auxOnDisk, onDisk, readable,
                 currentMainHash, currentPreambleHash, buildOptions, buildAuxPath,
                 converted, failed, events, owedFull, owed>>

\* line 886 or 893: one call of convertFileToHTML; its result is not looked at
ConvertFile ==
  /\ buildPc = "converting"
  /\ fileIndex <= Len(texFiles)
  /\ LET f == texFiles[fileIndex]
         result == convertFileToHTML(f, onDisk, readable)
     IN /\ converted' = IF result = "written" THEN converted \cup {f} ELSE converted
        /\ failed' = IF result = "written" THEN failed ELSE failed \cup {f}
        /\ owed' = owed \ {f}
  /\ fileIndex' = fileIndex + 1
  /\ UNCHANGED <<parserVars, reloadsSent, buildTimer, isBuilding, lastMainFileHash,
                 lastPreambleHash, mainHash, preambleHash, auxOnDisk, onDisk, readable,
                 currentMainHash, currentPreambleHash, buildPc, buildOptions,
                 buildAuxPath, texFiles, events, owedFull>>

\* lines 896-914: the index, the reload notice, and the finally block
BuildFinish ==
  /\ buildPc = "converting"
  /\ fileIndex > Len(texFiles)
  /\ reloadsSent' = reloadsSent + 1
  /\ isBuilding' = FALSE
  /\ buildPc' = "idle"
  /\ UNCHANGED <<parserVars, buildTimer, lastMainFileHash, lastPreambleHash, mainHash,
                 preambleHash, auxOnDisk, onDisk, readable, currentMainHash,
                 currentPreambleHash, buildOptions, buildAuxPath, texFiles, fileIndex,
                 converted, failed, events, owedFull, owed>>

\* lines 896-900 and 909-914: writing the index of a whole-project build
\* throws; the error is logged, no reload notice is sent, finally runs
BuildThrows ==
  /\ buildPc = "converting"
  /\ fileIndex > Len(texFiles)
  /\ buildOptions.targetFile = "" /\ buildOptions.chapter = ""
  /\ isBuilding' = FALSE
  /\ buildPc' = "idle"
  /\ UNCHANGED <<parserVars, reloadsSent, buildTimer, lastMainFileHash, lastPreambleHash,
                 mainHash, preambleHash, auxOnDisk, onDisk, readable, currentMainHash,
                 currentPreambleHash, buildOptions, buildAuxPath, texFiles, fileIndex,
                 converted, failed, events, owedFull, owed>>

TimerFires == BuildSkipped \/ BuildStart
BuildRuns == CompileFinish \/ ListFiles \/ ConvertFile \/ BuildFinish \/ BuildThrows

NextWatch ==
  \/ MainFileChanged
  \/ PreambleChanged
  \/ SrcFileChanged
  \/ BuildSkipped
  \/ BuildStart
  \/ CompileFinish
  \/ ListFiles
  \/ ConvertFile
  \/ BuildFinish
  \/ BuildThrows

\* a timer that is set fires after CONFIG.debounceDelay; a pdflatex run ends
\* and the synchronous rest of a build runs to its end
SpecWatch ==
  InitWatch /\ [][NextWatch]_vars /\ WF_vars(TimerFires) /\ WF_vars(BuildRuns)

\* ------------------------------------------------------- claims on watch.js
\* C18: a file that cannot be read gets no output and its failure is
\* reported, and a build of all files still converts every file that can be
\* read, whatever the position of the unreadable ones
C18_FailureIsPerFile ==
  /\ converted \subseteq readable
  /\ failed \cap readable = {}
  /\ (buildPc = "idle" /\ buildOptions.targetFile = "" /\ texFiles # <<>>) =>
       /\ converted = onDisk \cap readable
       /\ failed = onDisk \ readable

C18_Witness ==
  /\ buildPc = "idle"
  /\ buildOptions = FullBuildOptions
  /\ onDisk = SrcFileSet
  /\ readable = {"src/ch/b.tex"}
  /\ texFiles = SrcFiles
  /\ failed = {"src/ch/a.tex"}
  /\ converted = {"src/ch/b.tex"}

\* C19: every change of main.tex or preamble.tex is eventually followed by
\* the start of a full build
C19_FullRebuildFollows == owedFull ~> ~owedFull

\* C20: every change of a .tex file under src/ is eventually followed by a
\* conversion of that file
C20_ChangedFileConverted ==
  \A f \in {"src/ch/a.tex", "src/ch/b.tex"} : (f \in owed) ~> (f \notin owed)

\* C21: a build invokes the LaTeX compiler exactly when skipCompile is false
\* and a hash of main.tex or preamble.tex differs from the recorded one or
\* build/main.aux does not exist; a build with skipCompile true never
\* compiles and never changes the recorded hashes
C21_CompileOnlyWhenNeeded ==
  [][/\ BuildStart =>
          ((buildPc' = "compiling") <=>
             /\ ~buildTimer.options.skipCompile
             /\ \/ mainHash # lastMainFileHash
                \/ preambleHash # lastPreambleHash
                \/ ~auxOnDisk)
     /\ (isBuilding /\ buildOptions.skipCompile) =>
          /\ buildPc # "compiling"
          /\ lastMainFileHash' = lastMainFileHash
          /\ lastPreambleHash' = lastPreambleHash]_vars

C21_Witness ==
  /\ buildPc = "compiling"
  /\ ~buildOptions.skipCompile
  /\ currentMainHash = lastMainFileHash
  /\ currentPreambleHash = lastPreambleHash
  /\ ~auxOnDisk

\* the timer fires and calls build while a build body is executing
BuildCalledDuringBuild ==
  buildTimer.pending /\ ~buildTimer'.pending /\ buildPc # "idle"

\* C29: a build body starts only when none is executing; a build call made
\* while a body is executing converts no file, does not compile and sends no
\* reload signal; the in-progress flag is clear whenever no body is
\* executing, after a build that completed and after one that threw, and a
\* set flag is eventually cleared
C29_BuildMutualExclusion ==
  /\ [][BuildStart => (buildPc = "idle" /\ ~isBuilding)]_vars
  /\ [][BuildCalledDuringBuild =>
          UNCHANGED <<buildPc, buildOptions, texFiles, fileIndex, converted, failed,
                      reloadsSent, lastMainFileHash, lastPreambleHash, auxOnDisk,
                      isBuilding>>]_vars
  /\ [](isBuilding <=> buildPc # "idle")
  /\ (isBuilding ~> ~isBuilding)

\* a pdflatex run is under way, a change of main.tex arrived during it, and
\* the build call of its timer has returned at the guard
C29_Witness ==
  /\ isBuilding
  /\ buildPc = "compiling"
  /\ owedFull
  /\ ~buildTimer.pending

\* a build that compiled has ended without a reload signal, so by a throw,
\* and a later single-file build is executing
C29_BuildAfterThrow ==
  /\ isBuilding
  /\ buildPc = "converting"
  /\ buildOptions.skipCompile
  /\ lastMainFileHash = 1
  /\ reloadsSent = 0

====
